---- MODULE Spec2Model ----
(***************************************************************************)
(* Model of the TestStoreApi storefront gateway (backend-api/index.js, the *)
(* JavaScript carried by src/docker-compose-mock.yml): the authMiddleware, *)
(* the per-identity carts in global.carts, the checkout flags in           *)
(* global.checkoutCompleted, and the cart / checkout / payment handlers.   *)
(*                                                                         *)
(* A request is handled in the steps the event loop runs it in: the        *)
(* synchronous head of authMiddleware, the continuation after the          *)
(* verify-token call, and (for POST /cart) the continuation after the      *)
(* catalog call.  Handlers of different requests interleave at these       *)
(* awaits only; the actions are written for any number of connections,     *)
(* and Init opens one.  This is the specification Spec.                    *)
(*                                                                         *)
(* The specification AuthSpec is the authentication side: the users table  *)
(* and the login of the data-access layer (adapter-api/index.js), the      *)
(* login route of the storefront, the locally verifying authMiddleware of  *)
(* the storefront's earlier revision, and the middleware and forwarding    *)
(* routes of the admin gateway (management-api/index.js), over days that   *)
(* pass and under each TOKEN_SECRET configuration.                         *)
(*                                                                         *)
(* ItemsSpec is the paging of GET /items in the data-access layer.         *)
(* FlowSpec is the storefront with one connection, a history of the        *)
(* answers given to each identity, an upstream that may never reply, and   *)
(* weak fairness of the continuations of answered calls.  RaceSpec is the  *)
(* storefront with two connections whose handlers interleave.              *)
(*                                                                         *)
(* ProtoSpec is Spec over identities that name properties of               *)
(* Object.prototype.  RouteSpec is the middleware stack of the storefront  *)
(* with its two fallback handlers.  BatchSpec is POST /items/batch of the  *)
(* data-access layer with its transaction, ProbeSpec the start-up wait for *)
(* the database (weakly fair), SoapSpec the GetItem and GetItems           *)
(* operations of the SOAP gateway, and EarlierSpec the cart, checkout and  *)
(* payment routes of the storefront's earlier revision.                    *)
(***************************************************************************)
EXTENDS Integers, Sequences, FiniteSets, TLC

(***************************************************************************)
(* JavaScript values of a JSON request body.  A number is the rational     *)
(* n/d in lowest terms (d = 1 for an integer); a string is its sequence of *)
(* characters.                                                             *)
(***************************************************************************)
Undefined == [t |-> "undefined", n |-> 0, d |-> 1, s |-> <<>>]
NaN == [t |-> "NaN", n |-> 0, d |-> 1, s |-> <<>>]
Num(k) == [t |-> "number", n |-> k, d |-> 1, s |-> <<>>]
Frac(k, m) == [t |-> "number", n |-> k, d |-> m, s |-> <<>>]
Str(cs) == [t |-> "string", n |-> 0, d |-> 1, s |-> cs]

\* typeof v === 'string'
IsString(v) == v.t = "string"

\* !v : undefined, NaN, 0 and "" are the falsy values a body field can take
Falsy(v) ==
  \/ v.t \in {"undefined", "NaN"}
  \/ v.t = "number" /\ v.n = 0
  \/ v.t = "string" /\ v.s = <<>>

\* Number.isInteger(v): a number without fractional part (never a string)
NumberIsInteger(v) == v.t = "number" /\ v.d = 1

\* v <= 0 for a number v
LeqZero(v) == v.n <= 0

DigitChars == <<"0", "1", "2", "3", "4", "5", "6", "7", "8", "9">>
Digits == {DigitChars[i] : i \in 1..Len(DigitChars)}
DigitVal(c) == (CHOOSE i \in 1..Len(DigitChars) : DigitChars[i] = c) - 1
WhiteSpace == {" "}

\* first index >= i of s that holds no white space (Len(s) + 1 when none)
RECURSIVE SkipWhiteSpace(_, _)
SkipWhiteSpace(s, i) ==
  IF i <= Len(s) /\ s[i] \in WhiteSpace THEN SkipWhiteSpace(s, i + 1) ELSE i

\* first index >= i of s that holds no decimal digit (Len(s) + 1 when none)
RECURSIVE DigitsEnd(_, _)
DigitsEnd(s, i) ==
  IF i <= Len(s) /\ s[i] \in Digits THEN DigitsEnd(s, i + 1) ELSE i

\* the integer written by the digits s[i..j-1]
RECURSIVE DigitsValue(_, _, _)
DigitsValue(s, i, j) ==
  IF j <= i THEN 0 ELSE 10 * DigitsValue(s, i, j - 1) + DigitVal(s[j - 1])

(***************************************************************************)
(* parseInt(string, 10): skip leading white space, take an optional sign,  *)
(* then the longest run of decimal digits; NaN when that run is empty.     *)
(* Whatever follows the digits is ignored.  ParseIntDigits reads the       *)
(* digits s[b..e-1].                                                       *)
(***************************************************************************)
ParseIntDigits(s, neg, b, e) ==
  IF e = b THEN NaN
  ELSE Num(IF neg THEN 0 - DigitsValue(s, b, e) ELSE DigitsValue(s, b, e))

ParseIntSigned(s, a) ==
  IF a <= Len(s) /\ s[a] \in {"+", "-"}
    THEN ParseIntDigits(s, s[a] = "-", a + 1, DigitsEnd(s, a + 1))
    ELSE ParseIntDigits(s, FALSE, a, DigitsEnd(s, a))

ParseIntString(s) == ParseIntSigned(s, SkipWhiteSpace(s, 1))

RECURSIVE Gcd(_, _)
Gcd(a, b) == IF b = 0 THEN a ELSE Gcd(b, a % b)

RECURSIVE Pow10(_)
Pow10(k) == IF k <= 0 THEN 1 ELSE 10 * Pow10(k - 1)

Abs(n) == IF n < 0 THEN 0 - n ELSE n

\* the number n/d (d > 0) in lowest terms
Reduced(n, d, g) == IF n = 0 THEN Num(0) ELSE Frac(n \div g, d \div g)
Rational(n, d) == Reduced(n, d, Gcd(Abs(n), d))

(***************************************************************************)
(* Number(string).  The string may hold white space around nothing (the    *)
(* value is 0) or around one decimal literal: an optional sign, digits     *)
(* with an optional fraction (or a fraction alone), an optional exponent.  *)
(* Every other string gives NaN.  (The literals Infinity and 0x.., 0o..,   *)
(* 0b.. need letters that no string of BodyValues below contains.)         *)
(* The literal is read from left to right: sign at a, integer digits       *)
(* s[b..c-1], fraction digits s[c+1..f-1], exponent digits s[g..h-1].      *)
(***************************************************************************)
\* the value m * 10^e10, negated when neg
Scaled(neg, m, e10) ==
  IF e10 >= 0 THEN Num((IF neg THEN 0 - m ELSE m) * Pow10(e10))
  ELSE Rational(IF neg THEN 0 - m ELSE m, Pow10(0 - e10))

\* the literal ends at index end: only white space may follow
NumberEnd(s, neg, m, e10, end) ==
  IF SkipWhiteSpace(s, end) = Len(s) + 1 THEN Scaled(neg, m, e10) ELSE NaN

\* an exponent sign was or was not read; its digits are s[g..h-1]
NumberExponentDigits(s, neg, m, fracLen, f, eneg, g, h) ==
  IF h > g
    THEN NumberEnd(s, neg, m,
                   (IF eneg THEN 0 - DigitsValue(s, g, h) ELSE DigitsValue(s, g, h))
                     - fracLen, h)
    ELSE NumberEnd(s, neg, m, 0 - fracLen, f)

\* the mantissa, of value m / 10^fracLen, ends at f
NumberExponent(s, neg, m, fracLen, f) ==
  IF f <= Len(s) /\ s[f] \in {"e", "E"}
    THEN IF f + 1 <= Len(s) /\ s[f + 1] \in {"+", "-"}
           THEN NumberExponentDigits(s, neg, m, fracLen, f, s[f + 1] = "-",
                                     f + 2, DigitsEnd(s, f + 2))
           ELSE NumberExponentDigits(s, neg, m, fracLen, f, FALSE,
                                     f + 1, DigitsEnd(s, f + 1))
    ELSE NumberEnd(s, neg, m, 0 - fracLen, f)

\* integer digits s[b..c-1], then a dot at c and fraction digits up to f
NumberFraction(s, neg, b, c, f) ==
  IF c = b /\ f = c + 1 THEN NaN
  ELSE NumberExponent(s, neg,
                      DigitsValue(s, b, c) * Pow10(f - (c + 1))
                        + DigitsValue(s, c + 1, f),
                      f - (c + 1), f)

\* integer digits s[b..c-1]
NumberMantissa(s, neg, b, c) ==
  IF c <= Len(s) /\ s[c] = "."
    THEN NumberFraction(s, neg, b, c, DigitsEnd(s, c + 1))
  ELSE IF c = b THEN NaN
  ELSE NumberExponent(s, neg, DigitsValue(s, b, c), 0, c)

NumberSigned(s, a) ==
  IF a > Len(s) THEN Num(0)
  ELSE IF s[a] \in {"+", "-"}
    THEN NumberMantissa(s, s[a] = "-", a + 1, DigitsEnd(s, a + 1))
  ELSE NumberMantissa(s, FALSE, a, DigitsEnd(s, a))

StringToNumber(s) == NumberSigned(s, SkipWhiteSpace(s, 1))

\* Number(v) for a body value or a stored field
ToNumber(v) ==
  CASE v.t = "string" -> StringToNumber(v.s)
    [] v.t = "number" -> v
    [] OTHER -> NaN

\* isNaN(v) for a body value
IsNaN(v) == ToNumber(v).t = "NaN"

(***************************************************************************)
(* parseInt(v, 10) for any value: v is converted to a string first, so a   *)
(* number loses its fractional part (truncation towards zero) and          *)
(* undefined and NaN give NaN.                                             *)
(***************************************************************************)
ParseInt(v) ==
  CASE v.t = "string" -> ParseIntString(v.s)
    [] v.t = "number" ->
         Num(IF v.n >= 0 THEN v.n \div v.d ELSE 0 - ((0 - v.n) \div v.d))
    [] OTHER -> NaN

\* Number(v) === k for a stored field v and a number k (NaN equals nothing)
NumberEquals(v, k) == ToNumber(v).t = "number" /\ ToNumber(v) = k

(***************************************************************************)
(* Values held by the properties of the two process-wide objects.  A       *)
(* property is absent, or holds an array of cart lines, a boolean, or (for *)
(* a name inherited from Object.prototype) a function with its .length.    *)
(***************************************************************************)
Absent == [t |-> "absent", a |-> <<>>, b |-> FALSE, len |-> 0]
PUndefined == [t |-> "undefined", a |-> <<>>, b |-> FALSE, len |-> 0]
PArray(lines) == [t |-> "array", a |-> lines, b |-> FALSE, len |-> 0]
PBool(v) == [t |-> "boolean", a |-> <<>>, b |-> v, len |-> 0]
PFunction(k) == [t |-> "function", a |-> <<>>, b |-> FALSE, len |-> k]
\* Object.prototype as a value; its .length is undefined, for which -1 stands
PObject == [t |-> "object", a |-> <<>>, b |-> FALSE, len |-> 0 - 1]

\* the identities (X-User values) of the model; "constructor" is a username
\* that is also the name of a property every plain object inherits
Users == {"alice", "constructor"}

\* the properties of Object.prototype among the identities, with the .length
\* of the function each holds (Object.length is 1)
ObjectPrototype == [k \in {"constructor"} |-> PFunction(1)]

\* the properties an object inherits from an array among the identities:
\* Array.prototype.map and Array, both of .length 1
ArrayPrototype == [k \in {"constructor", "map"} |-> PFunction(1)]

\* obj[key] for a plain object: the own property, else the inherited one,
\* else undefined.  The key "__proto__" is the accessor of the object's
\* prototype, not a property: obj["__proto__"] holds the array that was
\* made the prototype, and is Absent while the prototype is Object.prototype.
Get(obj, key) ==
  IF key = "__proto__"
    THEN IF obj[key].t = "array" THEN obj[key] ELSE PObject
  ELSE IF obj[key] # Absent THEN obj[key]
  ELSE IF obj["__proto__"].t = "array" /\ key \in DOMAIN ArrayPrototype
    THEN ArrayPrototype[key]
  ELSE IF key \in DOMAIN ObjectPrototype THEN ObjectPrototype[key]
  ELSE PUndefined

\* obj[key] = v: the setter of "__proto__" takes an object as the new
\* prototype and ignores every other value
Put(obj, key, v) ==
  IF key = "__proto__" /\ v.t # "array" THEN obj ELSE [obj EXCEPT ![key] = v]

\* the truth value of a property value: objects (arrays and functions
\* included) are truthy
Truthy(p) == p.t \in {"array", "function", "object"} \/ (p.t = "boolean" /\ p.b)

\* p.length
LengthOf(p) == IF p.t = "array" THEN Len(p.a) ELSE p.len

\* the property keys of the model: the identities, a second ordinary
\* username for the runs with several clients, and the usernames "__proto__"
\* and "map" for the runs in which the prototype of global.carts changes
Identities == Users \cup {"bob", "__proto__", "map"}

\* an object without own properties: {}
EmptyObject == [u \in Identities |-> Absent]

(***************************************************************************)
(* The token of a user for a day (data-access layer, generateDynamicToken):*)
(* the SHA-256 digest of username + 'YYYY-MM-DD' + secret.  The digest is  *)
(* modelled as an injective function of its input.                         *)
(***************************************************************************)
TOKEN_SECRET == "mySuperSecretKey"
\* a date cut after the month: the same text on every day of the model
ISOMonth(day) == "2025-01"

\* the text of a day of the model: days 0..9 are 2025-01-10 .. 2025-01-19
ISODate(day) == "2025-01-1" \o DigitChars[day + 1]
Sha256Hex(input) == "sha256(" \o input \o ")"
generateDynamicToken(username, day) ==
  Sha256Hex(username \o ISODate(day) \o TOKEN_SECRET)

\* POST /verify-token of the upstream: the reply's `valid` field
VerifyToken(username, token, day) == token = generateDynamicToken(username, day)

(***************************************************************************)
(* The TOKEN_SECRET configuration of a service and the three derivations   *)
(* of the token: the data-access layer (at login), the locally verifying   *)
(* storefront and the admin gateway.  Each reads the secret as             *)
(* process.env.TOKEN_SECRET || 'default_secret' and the day as             *)
(* new Date().toISOString().slice(0, 10), the UTC calendar day.            *)
(***************************************************************************)
NoEnv == [set |-> FALSE, v |-> ""]
Env(v) == [set |-> TRUE, v |-> v]

\* the configurations of the model: unset, set to the empty string, and the
\* value the compose file gives to all three services
EnvValues == {NoEnv, Env(""), Env(TOKEN_SECRET)}

\* e || 'default_secret': an unset or empty variable is falsy
OrDefaultSecret(e) == IF e.set /\ e.v # "" THEN e.v ELSE "default_secret"

generateDynamicToken_adapter(e, username, day) ==
  Sha256Hex(username \o ISODate(day) \o OrDefaultSecret(e))

generateDynamicToken_backend(e, username, day) ==
  Sha256Hex(username \o ISODate(day) \o OrDefaultSecret(e))

\* an admin gateway that reads the variable without a fallback: the string
\* concatenation turns the undefined secret into the text "undefined"
generateDynamicToken_managementNoFallback(e, username, day) ==
  Sha256Hex(username \o ISODate(day) \o (IF e.set THEN e.v ELSE "undefined"))

generateDynamicToken_management(e, username, day) ==
  Sha256Hex(username \o ISODate(day) \o OrDefaultSecret(e))

(***************************************************************************)
(* Request headers.  A header is absent or carries a value; the value of   *)
(* X-User is a name, the value of Authorization is the sequence of the     *)
(* pieces it is written with, where the piece " " is one space character   *)
(* and no other piece holds a space.                                       *)
(***************************************************************************)
NoUserHeader == [present |-> FALSE, v |-> ""]
NoAuthHeader == [present |-> FALSE, v |-> <<>>]
Header(v) == [present |-> TRUE, v |-> v]

\* !username and !authHeader: the header is absent, or its value is empty
FalsyUserHeader(h) == ~h.present \/ h.v = ""
FalsyAuthHeader(h) == ~h.present \/ h.v = <<>>

\* username as a piece of a string concatenation (undefined gives "undefined")
NameText(h) == IF h.present THEN h.v ELSE "undefined"

\* the text of the pieces ps[i..j-1]
RECURSIVE Joined(_, _, _)
Joined(ps, i, j) == IF j <= i THEN "" ELSE Joined(ps, i, j - 1) \o ps[j - 1]

\* first index >= i of ps that holds a space (Len(ps) + 1 when none)
RECURSIVE SpaceFrom(_, _)
SpaceFrom(ps, i) ==
  IF i <= Len(ps) /\ ps[i] # " " THEN SpaceFrom(ps, i + 1) ELSE i

\* value.split(' '): the texts between the spaces, at least one
RECURSIVE SplitFrom(_, _)
SplitFrom(ps, i) ==
  IF SpaceFrom(ps, i) > Len(ps) THEN <<Joined(ps, i, Len(ps) + 1)>>
  ELSE <<Joined(ps, i, SpaceFrom(ps, i))>> \o SplitFrom(ps, SpaceFrom(ps, i) + 1)

Split(ps) == SplitFrom(ps, 1)

\* authHeader.split(' ')[1]: the second text, or undefined
NoToken == [present |-> FALSE, v |-> ""]
ProvidedToken(authHeader) ==
  IF Len(Split(authHeader.v)) >= 2
    THEN [present |-> TRUE, v |-> Split(authHeader.v)[2]]
    ELSE NoToken

\* a comparison that lets an undefined token pass
TokenDiffersLoose(provided, expected) == provided.present /\ provided.v # expected

\* providedToken !== expected
TokenDiffers(provided, expected) == ~provided.present \/ provided.v # expected

(***************************************************************************)
(* The users table of the data-access layer, keyed by username (UNIQUE NOT *)
(* NULL): a row holds the role and the password.                           *)
(***************************************************************************)
NoRow == [exists |-> FALSE, role |-> "", password |-> ""]
Row(role, password) == [exists |-> TRUE, role |-> role, password |-> password]

Roles == {"admin", "user"}
Passwords == {"jdoe@123", "asmith@456"}

\* the usernames of the model: the identities and a name without a row
Usernames == Users \cup {"mallory"}

\* the table after seeding: one admin and one user
SeedUsers ==
  [u \in Usernames |->
     CASE u = "alice" -> Row("admin", "jdoe@123")
       [] u = "constructor" -> Row("user", "asmith@456")
       [] OTHER -> NoRow]

\* SELECT ... FROM users WHERE username = $1 (an undefined parameter is NULL,
\* which equals nothing): the row, or NoRow when there is none
SelectUser(table, name) ==
  IF name.present /\ name.v \in DOMAIN table THEN table[name.v] ELSE NoRow

MaxCart == 2

MaxDay == 2

VARIABLES
  carts,              \* global.carts: [obj |-> created?, own |-> properties]
  checkoutCompleted,  \* global.checkoutCompleted: own properties
  inflight,           \* per connection: the request being handled, if any
  today,              \* the current UTC day (index of the calendar day)
  lastCheckout,       \* history: identities whose last success was a checkout
  last,               \* the request served by the last step and its response
  users,              \* the users table of the data-access layer
  env,                \* the TOKEN_SECRET configuration of the services
  admin,              \* the request the admin gateway is handling, if any
  seen,               \* the login or gateway request of the last step
  query,              \* the last GET /items of the data-access layer
  history,            \* history: per identity, the answered adds and orders
  routed,             \* a request on its way down the storefront's middleware stack
  batch,              \* POST /items/batch: the items table and the pooled connection
  probe,              \* the start of the data-access layer: waitForPostgres
  soap                \* the GetItem operation of the SOAP items gateway

\* the cart side and the authentication side of the state
cartVars == <<carts, checkoutCompleted, inflight, lastCheckout, last>>
authVars == <<users, env, admin, seen>>
sideVars == <<query, history, routed, batch, probe, soap>>
serviceVars == <<routed, batch, probe, soap>>

vars == <<carts, checkoutCompleted, inflight, today, lastCheckout, last,
          users, env, admin, seen, query, history, routed, batch, probe, soap>>

Routes == {"POST /cart", "GET /cart/items", "DELETE /cart/items",
           "POST /checkout", "POST /payment"}

Idle == [pc |-> "idle", op |-> "", user |-> "", itemId |-> Undefined,
         quantity |-> Undefined]

\* `last` when the last step served no request
Nothing == [op |-> "", user |-> "", headers |-> "", token |-> "",
            itemId |-> Undefined, quantity |-> Undefined,
            upstream |-> "", by |-> "",
            status |-> 0, error |-> "", body |-> <<>>]

\* the values a body field takes in the model
BodyValues ==
  { Undefined, Num(0), Num(1), Num(2), Num(0 - 1), Frac(3, 2),
    Str(<<"1">>), Str(<<"1", ".", "5">>), Str(<<"0">>),
    Str(<<"a", "b", "c">>), Str(<<>>) }

\* the tokens a request for user u may carry
PresentedTokens(u) ==
  { generateDynamicToken(u, today), generateDynamicToken(u, today - 1), "garbage" }
  \cup { generateDynamicToken(v, today) : v \in Users }

\* the bodies of POST /cart in the model: any value in one field, a plain
\* positive integer in the other
PlainValues == {Num(1), Num(2)}
CartBodies ==
  (BodyValues \X PlainValues) \cup (PlainValues \X BodyValues)

Line(itemId, quantity) == [itemId |-> itemId, quantity |-> quantity]

\* the admin gateway handles no request
AdminIdle == [pc |-> "idle", op |-> "", username |-> NoUserHeader]

\* `seen` when the last step served no login and no gateway request
NothingSeen ==
  [svc |-> "", by |-> "", op |-> "", username |-> NoUserHeader, password |-> "",
   authorization |-> NoAuthHeader, lookup |-> "", compared |-> FALSE,
   passed |-> FALSE, forwarded |-> FALSE, status |-> 0, error |-> "",
   token |-> "", message |-> "", role |-> ""]

\* `query` before any GET /items
NoQuery == [pc |-> "none", page |-> Undefined, limit |-> Undefined,
            sent |-> [page |-> 0, limit |-> 0, offset |-> 0]]

\* no request is on its way through the storefront's middleware stack
NoRequest == [pc |-> "none"]

\* POST /items/batch was not called
NoBatch == [pc |-> "none"]

\* the data-access layer was not started
NotStarted == [pc |-> "none"]

\* GetItem was not called
NoCall == [pc |-> "none"]

\* `history` at process start: no add answered, no order
NoHistory ==
  [u \in Identities |-> [appended |-> <<>>, checkouts |-> 0, payments |-> 0,
                         unpaid |-> 0]]

Init ==
  /\ carts = [obj |-> FALSE, own |-> EmptyObject]
  /\ checkoutCompleted = EmptyObject
  /\ inflight = [s \in 1..1 |-> Idle]
  /\ today = 1
  /\ lastCheckout = {}
  /\ last = Nothing
  /\ users = SeedUsers
  /\ env = Env(TOKEN_SECRET)
  /\ admin = AdminIdle
  /\ seen = NothingSeen
  /\ query = NoQuery
  /\ history = NoHistory
  /\ routed = NoRequest
  /\ batch = NoBatch
  /\ probe = NotStarted
  /\ soap = NoCall

\* what a handler leaves behind: the response and the two global objects
Outcome(status, error, body, c, f) ==
  [status |-> status, error |-> error, body |-> body, carts |-> c, flags |-> f]

\* a synchronous handler threw: Express passes the error to the error
\* middleware, which answers 500; the globals stay as the handler left them
Thrown(c, f) == Outcome(500, "Internal server error", <<>>, c, f)

(***************************************************************************)
(* POST /cart, before the catalog call: coercion of a numeric string and   *)
(* the three validation checks.  "" stands for a body that passes.         *)
(***************************************************************************)
Coerce(v) == IF IsString(v) /\ ~IsNaN(v) THEN ParseInt(v) ELSE v

\* the validation of an earlier revision: presence only
CartValidationPresenceOnly(itemId, quantity) ==
  IF Falsy(itemId) \/ Falsy(quantity)
    THEN "Item ID and quantity are required"
  ELSE ""

CartValidation(itemId, quantity) ==
  IF Falsy(itemId) \/ Falsy(quantity)
    THEN "Item ID and quantity are required"
  ELSE IF ~NumberIsInteger(itemId) \/ LeqZero(itemId)
    THEN "Invalid item ID, must be a positive integer"
  ELSE IF ~NumberIsInteger(quantity) \/ LeqZero(quantity)
    THEN "Invalid quantity, must be a positive integer"
  ELSE ""

\* the outcomes of axios.get(`${ADAPTER_API_URL}/items/${itemId}`): a 2xx
\* reply with or without data, an error reply with status 404 or another
\* status, or no reply at all
CatalogReplies == {"data", "empty", "404", "500", "none"}

(***************************************************************************)
(* POST /cart, after the catalog call.                                     *)
(***************************************************************************)
\* a push that merges the quantity into an earlier line of the same itemId
PushMerging(lines, line) ==
  IF \E i \in 1..Len(lines) : lines[i].itemId = line.itemId
    THEN [i \in 1..Len(lines) |->
            IF lines[i].itemId = line.itemId
              THEN Line(line.itemId, Num(lines[i].quantity.n + line.quantity.n))
              ELSE lines[i]]
    ELSE Append(lines, line)

\* the new line put before the others
PushFront(lines, line) == <<line>> \o lines

\* cart.push(line)
Push(lines, line) == Append(lines, line)

\* a catch block that does not look at the status of the error reply
CatchStatusGeneric(reply) == 500

\* the catch block: 404 for an error reply with status 404, else 500
CatchStatus(reply) == IF reply = "404" THEN 404 ELSE 500

CatchError(reply) ==
  IF reply = "404" THEN "Item not found"
  ELSE "Internal server error while validating item"

CartAddHandler(c, f, u, itemId, quantity, reply) ==
  LET own0 == IF c.obj THEN c.own ELSE EmptyObject
      cur == Get(own0, u)
      own1 == Put(own0, u, IF Truthy(cur) THEN cur ELSE PArray(<<>>))
      pushed == Push(Get(own1, u).a, Line(itemId, quantity))
  IN  CASE reply = "empty" -> Outcome(404, "Item not found", <<>>, c, f)
        [] reply \in {"404", "500", "none"} ->
             Outcome(CatchStatus(reply), CatchError(reply), <<>>, c, f)
        [] reply = "data" /\ Get(own1, u).t # "array" ->
             \* push is not a function: the TypeError is caught by the handler
             Outcome(CatchStatus("none"), CatchError("none"), <<>>,
                     [obj |-> TRUE, own |-> own1], f)
        [] OTHER ->
             Outcome(200, "", pushed,
                     [obj |-> TRUE, own |-> [own1 EXCEPT ![u] = PArray(pushed)]], f)

(***************************************************************************)
(* GET /cart/items                                                         *)
(***************************************************************************)
ParsedCart(lines) ==
  [i \in 1..Len(lines) |->
     Line(ParseInt(lines[i].itemId), ParseInt(lines[i].quantity))]

\* a list that answers with the lines of every cart
CartItemsHandlerAllCarts(c, f, u) ==
  IF ~c.obj THEN Thrown(c, f)
  ELSE Outcome(200, "",
               ParsedCart(c.own["alice"].a \o c.own["bob"].a \o c.own["constructor"].a),
               c, f)

CartItemsHandler(c, f, u) ==
  LET cur == Get(c.own, u)
      cart == IF Truthy(cur) THEN cur ELSE PArray(<<>>)
  IN  IF ~c.obj THEN Thrown(c, f)              \* global.carts is undefined
      ELSE IF cart.t # "array" THEN Thrown(c, f)   \* cart.map is not a function
      ELSE Outcome(200, "", ParsedCart(cart.a), c, f)

(***************************************************************************)
(* DELETE /cart/items                                                      *)
(***************************************************************************)
\* the index of the last match instead of the first
FindLastIndex(lines, itemId) ==
  LET hits == {i \in 1..Len(lines) : NumberEquals(lines[i].itemId, itemId)}
  IN  IF hits = {} THEN 0 ELSE CHOOSE i \in hits : \A j \in hits : i >= j

\* cart.findIndex(item => Number(item.itemId) === itemId); 0 stands for -1
FindIndex(lines, itemId) ==
  LET hits == {i \in 1..Len(lines) : NumberEquals(lines[i].itemId, itemId)}
  IN  IF hits = {} THEN 0 ELSE CHOOSE i \in hits : \A j \in hits : i <= j

\* cart.splice(index, 1)
Splice(lines, index) ==
  [i \in 1..(Len(lines) - 1) |-> IF i < index THEN lines[i] ELSE lines[i + 1]]

CartDeleteHandler(c, f, u, rawItemId) ==
  LET itemId == Coerce(rawItemId)
      cur == Get(c.own, u)
      cart == IF Truthy(cur) THEN cur ELSE PArray(<<>>)
      index == FindIndex(cart.a, itemId)
  IN  IF ~NumberIsInteger(itemId) \/ LeqZero(itemId)
        THEN Outcome(400, "Invalid item ID, must be a positive integer", <<>>, c, f)
      ELSE IF ~c.obj THEN Thrown(c, f)            \* global.carts is undefined
      ELSE IF cart.t # "array" THEN Thrown(c, f)  \* cart.findIndex is not a function
      ELSE IF index = 0
        THEN Outcome(400, "Item not found in the cart", <<>>, c, f)
      ELSE Outcome(200, "", <<cart.a[index]>>,
                   [c EXCEPT !.own[u] = PArray(Splice(cart.a, index))], f)

(***************************************************************************)
(* POST /checkout and POST /payment                                        *)
(***************************************************************************)
\* a checkout that clears the flag when it fails
CheckoutHandlerResetting(c, f, u) ==
  IF ~c.obj \/ ~Truthy(Get(c.own, u)) \/ LengthOf(Get(c.own, u)) = 0
    THEN Outcome(400, "Cart is empty", <<>>, c, [f EXCEPT ![u] = PBool(FALSE)])
  ELSE Outcome(200, "", <<>>,
               [c EXCEPT !.own[u] = PArray(<<>>)], [f EXCEPT ![u] = PBool(TRUE)])

CheckoutHandler(c, f, u) ==
  IF ~c.obj \/ ~Truthy(Get(c.own, u)) \/ LengthOf(Get(c.own, u)) = 0
    THEN Outcome(400, "Cart is empty", <<>>, c, f)
  ELSE Outcome(200, "", <<>>,
               [c EXCEPT !.own[u] = PArray(<<>>)], Put(f, u, PBool(TRUE)))

\* a payment that also empties the cart
PaymentHandlerEmptyingCart(c, f, u) ==
  IF ~Truthy(Get(f, u))
    THEN Outcome(400, "Checkout not completed", <<>>, c, f)
  ELSE Outcome(200, "", <<>>,
               [obj |-> TRUE, own |-> [c.own EXCEPT ![u] = PArray(<<>>)]],
               [f EXCEPT ![u] = PBool(FALSE)])

\* a payment that leaves the flag set
PaymentHandlerKeepingFlag(c, f, u) ==
  IF ~Truthy(Get(f, u))
    THEN Outcome(400, "Checkout not completed", <<>>, c, f)
  ELSE Outcome(200, "", <<>>, c, f)

PaymentHandler(c, f, u) ==
  IF ~Truthy(Get(f, u))
    THEN Outcome(400, "Checkout not completed", <<>>, c, f)
  ELSE Outcome(200, "", <<>>, c, Put(f, u, PBool(FALSE)))

(***************************************************************************)
(* authMiddleware.  `reply` is the outcome of the verify-token call: the   *)
(* reply's `valid` field, or "fail" when the call threw (an error status   *)
(* or no reply).  AuthStatus is the status the middleware answers with     *)
(* (0: it called next()).                                                  *)
(***************************************************************************)
VerifyReply(u, token, up) ==
  IF up = "fail" THEN "fail"
  ELSE IF VerifyToken(u, token, today) THEN "valid"
  ELSE "invalid"

\* a middleware that calls next() whatever the verifier's verdict
AuthStatusAnyVerdict(reply) ==
  CASE reply \in {"valid", "invalid"} -> 0
    [] OTHER -> 500

AuthStatus(reply) ==
  CASE reply = "valid" -> 0
    [] reply = "invalid" -> 403
    [] OTHER -> 500

AuthError(reply) ==
  IF reply = "invalid" THEN "Invalid or expired token" ELSE "Internal server error"

\* the lines in all carts, and the POST /cart requests not yet answered
RECURSIVE SumLines(_, _)
SumLines(own, us) ==
  IF us = {} THEN 0
  ELSE LET u == CHOOSE x \in us : TRUE
       IN  Len(own[u].a) + SumLines(own, us \ {u})

Pending == Cardinality({s \in DOMAIN inflight : inflight[s].op = "POST /cart"})

\* `last` for the request of connection s: what it carried, the upstream
\* reply this step consumed, the code that answered and its response
\* (status 0: no response yet)
Served(s, token, itemId, quantity, upstream, by, status, error, body) ==
  [op |-> inflight[s].op, user |-> inflight[s].user, headers |-> "both",
   token |-> token, itemId |-> itemId, quantity |-> quantity,
   upstream |-> upstream, by |-> by,
   status |-> status, error |-> error, body |-> body]

\* who answered: the route's handler, or the error middleware after a throw
AnsweredBy(out) ==
  IF out = Thrown(out.carts, out.flags) THEN "error middleware" ELSE "route"

\* the history of successful checkouts and payments
Successes(op, u, status) ==
  IF status # 200 THEN lastCheckout
  ELSE IF op = "POST /checkout" THEN lastCheckout \cup {u}
  ELSE IF op = "POST /payment" THEN lastCheckout \ {u}
  ELSE lastCheckout

\* a request arrives: authMiddleware up to its await
Receive(s, op, u, headers) ==
  /\ inflight[s].pc = "idle"
  /\ op = "POST /cart" => SumLines(carts.own, Users) + Pending < MaxCart
  /\ IF headers # "both"
       THEN /\ last' = [Nothing EXCEPT !.op = op, !.user = u, !.headers = headers,
                          !.by = "authMiddleware", !.status = 401,
                          !.error = "Missing Authorization or X-User header"]
            /\ UNCHANGED inflight
       ELSE /\ inflight' = [inflight EXCEPT ![s] =
                              [Idle EXCEPT !.pc = "verify", !.op = op, !.user = u]]
            /\ last' = Nothing
  /\ UNCHANGED <<carts, checkoutCompleted, today, lastCheckout>>
  /\ UNCHANGED authVars
  /\ UNCHANGED sideVars

\* the verifier says no, or the call to it fails
Reject(s, token, up) ==
  /\ inflight[s].pc = "verify"
  /\ VerifyReply(inflight[s].user, token, up) # "valid"
  /\ last' = Served(s, token, Undefined, Undefined,
                    VerifyReply(inflight[s].user, token, up), "authMiddleware",
                    AuthStatus(VerifyReply(inflight[s].user, token, up)),
                    AuthError(VerifyReply(inflight[s].user, token, up)), <<>>)
  /\ inflight' = [inflight EXCEPT ![s] = Idle]
  /\ UNCHANGED <<carts, checkoutCompleted, today, lastCheckout>>
  /\ UNCHANGED authVars
  /\ UNCHANGED sideVars

\* the verifier says yes and next() runs the route's handler
Authenticated(s, op, token) ==
  /\ inflight[s].pc = "verify"
  /\ inflight[s].op = op
  /\ AuthStatus(VerifyReply(inflight[s].user, token, "reply")) = 0

\* a synchronous handler runs to its response
Finish(s, token, itemId, out) ==
  /\ last' = Served(s, token, itemId, Undefined, "valid", AnsweredBy(out),
                    out.status, out.error, out.body)
  /\ carts' = out.carts
  /\ checkoutCompleted' = out.flags
  /\ lastCheckout' = Successes(inflight[s].op, inflight[s].user, out.status)
  /\ inflight' = [inflight EXCEPT ![s] = Idle]
  /\ UNCHANGED today
  /\ UNCHANGED authVars
  /\ UNCHANGED sideVars

CartAddBegin(s, token, itemId, quantity) ==
  /\ Authenticated(s, "POST /cart", token)
  /\ IF CartValidation(Coerce(itemId), Coerce(quantity)) # ""
       THEN /\ last' = Served(s, token, itemId, quantity, "valid", "route", 400,
                              CartValidation(Coerce(itemId), Coerce(quantity)), <<>>)
            /\ inflight' = [inflight EXCEPT ![s] = Idle]
       ELSE /\ last' = Served(s, token, itemId, quantity, "valid", "route", 0, "", <<>>)
            /\ inflight' = [inflight EXCEPT ![s].pc = "catalog",
                                            ![s].itemId = Coerce(itemId),
                                            ![s].quantity = Coerce(quantity)]
  /\ UNCHANGED <<carts, checkoutCompleted, today, lastCheckout>>
  /\ UNCHANGED authVars
  /\ UNCHANGED sideVars

CartAddEnd(s, reply) ==
  /\ inflight[s].pc = "catalog"
  /\ LET out == CartAddHandler(carts, checkoutCompleted, inflight[s].user,
                               inflight[s].itemId, inflight[s].quantity, reply)
     IN  /\ last' = Served(s, "", inflight[s].itemId, inflight[s].quantity,
                           reply, "route", out.status, out.error, out.body)
         /\ carts' = out.carts
         /\ checkoutCompleted' = out.flags
  /\ inflight' = [inflight EXCEPT ![s] = Idle]
  /\ UNCHANGED <<today, lastCheckout>>
  /\ UNCHANGED authVars
  /\ UNCHANGED sideVars

CartItems(s, token) ==
  /\ Authenticated(s, "GET /cart/items", token)
  /\ Finish(s, token, Undefined,
            CartItemsHandler(carts, checkoutCompleted, inflight[s].user))

CartDelete(s, token, itemId) ==
  /\ Authenticated(s, "DELETE /cart/items", token)
  /\ Finish(s, token, itemId,
            CartDeleteHandler(carts, checkoutCompleted, inflight[s].user, itemId))

Checkout(s, token) ==
  /\ Authenticated(s, "POST /checkout", token)
  /\ Finish(s, token, Undefined,
            CheckoutHandler(carts, checkoutCompleted, inflight[s].user))

Payment(s, token) ==
  /\ Authenticated(s, "POST /payment", token)
  /\ Finish(s, token, Undefined,
            PaymentHandler(carts, checkoutCompleted, inflight[s].user))

Next ==
  \/ \E s \in DOMAIN inflight, op \in Routes, u \in Users,
        headers \in {"both", "no Authorization", "no X-User"} :
       Receive(s, op, u, headers)
  \/ \E s \in DOMAIN inflight : \E token \in PresentedTokens(inflight[s].user),
        up \in {"reply", "fail"} : Reject(s, token, up)
  \/ \E s \in DOMAIN inflight : \E token \in PresentedTokens(inflight[s].user),
        body \in CartBodies : CartAddBegin(s, token, body[1], body[2])
  \/ \E s \in DOMAIN inflight, reply \in CatalogReplies : CartAddEnd(s, reply)
  \/ \E s \in DOMAIN inflight : \E token \in PresentedTokens(inflight[s].user) :
       CartItems(s, token)
  \/ \E s \in DOMAIN inflight : \E token \in PresentedTokens(inflight[s].user),
        itemId \in BodyValues : CartDelete(s, token, itemId)
  \/ \E s \in DOMAIN inflight : \E token \in PresentedTokens(inflight[s].user) :
       Checkout(s, token)
  \/ \E s \in DOMAIN inflight : \E token \in PresentedTokens(inflight[s].user) :
       Payment(s, token)

Spec == Init /\ [][Next]_vars

(***************************************************************************)
(* The authentication side has one client, which sends a request when the *)
(* one before is answered; midnight may fall at any moment.                *)
(*                                                                         *)
(* Login.  POST /users/validate of the data-access layer, then POST /login *)
(* of the storefront, which relays it.  `mode` is how the data-access      *)
(* layer answers: "reply" (the query ran), "error" (the query threw and    *)
(* the catch block answered 500) or "none" (no response reached the        *)
(* storefront).  A reply is its status, its error text and its token.      *)
(***************************************************************************)
Reply(status, error, token) == [status |-> status, error |-> error, token |-> token]

Modes == {"reply", "error", "none"}

\* a validation that tells an unknown username from a wrong password
ValidateUserNamingCause(table, e, username, password, mode, day) ==
  IF mode # "reply" THEN Reply(500, "Internal Server Error", "")
  ELSE IF ~SelectUser(table, Header(username)).exists
    THEN Reply(404, "User not found", "")
  ELSE IF SelectUser(table, Header(username)).password # password
    THEN Reply(401, "Invalid credentials", "")
  ELSE Reply(200, "", generateDynamicToken_adapter(e, username, day))

ValidateUser(table, e, username, password, mode, day) ==
  IF mode # "reply" THEN Reply(500, "Internal Server Error", "")
  ELSE IF ~SelectUser(table, Header(username)).exists
    THEN Reply(401, "Invalid credentials", "")
  ELSE IF SelectUser(table, Header(username)).password # password
    THEN Reply(401, "Invalid credentials", "")
  ELSE Reply(200, "", generateDynamicToken_adapter(e, username, day))

\* the catch block of POST /login for an error response of the upstream
LoginCatch(r) ==
  IF r.status = 401 THEN Reply(401, "Invalid credentials", "")
  ELSE Reply(r.status,
             IF r.error # "" THEN r.error ELSE "Error validating credentials", "")

\* POST /login; "" is a username or password that is missing or empty
LoginHandler(table, e, username, password, mode, day) ==
  IF username = "" \/ password = ""
    THEN Reply(400, "Username and password are required", "")
  ELSE IF mode = "none"
    THEN Reply(500, "Internal server error during login", "")
  ELSE IF ValidateUser(table, e, username, password, mode, day).status = 200
    THEN Reply(200, "", ValidateUser(table, e, username, password, mode, day).token)
  ELSE LoginCatch(ValidateUser(table, e, username, password, mode, day))

\* what the upstream answered to the storefront ("" when it was not called)
LoginLookup(table, e, username, password, mode, day) ==
  IF username = "" \/ password = "" THEN ""
  ELSE IF mode = "none" THEN "none"
  ELSE IF ValidateUser(table, e, username, password, mode, day).status = 200 THEN "200"
  ELSE IF ValidateUser(table, e, username, password, mode, day).status = 401 THEN "401"
  ELSE "error"

\* the usernames and passwords of login bodies
LoginNames == Usernames \cup {""}
LoginPasswords == Passwords \cup {"wrong", ""}

Login(username, password, mode) ==
  /\ admin.pc = "idle"
  /\ seen' = [NothingSeen EXCEPT
                !.svc = "storefront", !.by = "route", !.op = "POST /login",
                !.username = Header(username), !.password = password,
                !.lookup = LoginLookup(users, env, username, password, mode, today),
                !.status = LoginHandler(users, env, username, password, mode, today).status,
                !.error = LoginHandler(users, env, username, password, mode, today).error,
                !.token = LoginHandler(users, env, username, password, mode, today).token]
  /\ UNCHANGED <<users, env, admin, today>>
  /\ UNCHANGED cartVars
  /\ UNCHANGED sideVars

(***************************************************************************)
(* What a gateway's middleware decides for a request: the response (status *)
(* 0 when it called next()), and whether it compared the token.            *)
(***************************************************************************)
Decision(status, error, compared) ==
  [status |-> status, error |-> error, compared |-> compared]

(***************************************************************************)
(* authMiddleware of the locally verifying storefront: synchronous.        *)
(***************************************************************************)
\* a middleware that accepts today's token of any identity
BackendAuthAnyIdentity(e, username, authorization, day) ==
  IF FalsyAuthHeader(authorization) \/ FalsyUserHeader(username)
    THEN Decision(401, "Missing Authorization or X-User header", FALSE)
  ELSE IF \A u \in Usernames :
            TokenDiffers(ProvidedToken(authorization),
                         generateDynamicToken_backend(e, u, day))
    THEN Decision(403, "Invalid or expired token", TRUE)
  ELSE Decision(0, "", TRUE)

BackendAuth(e, username, authorization, day) ==
  IF FalsyAuthHeader(authorization) \/ FalsyUserHeader(username)
    THEN Decision(401, "Missing Authorization or X-User header", FALSE)
  ELSE IF TokenDiffers(ProvidedToken(authorization),
                       generateDynamicToken_backend(e, username.v, day))
    THEN Decision(403, "Invalid or expired token", TRUE)
  ELSE Decision(0, "", TRUE)

(***************************************************************************)
(* The admin gateway's middleware.  POST /user/role of the data-access     *)
(* layer answers the role of the row, 404 when there is no row, 500 when   *)
(* the query threw; "none": no response reached the gateway.               *)
(***************************************************************************)
\* a lookup that answers from the table as it was seeded
RoleLookupSeeded(table, username, mode) ==
  IF mode = "none" THEN "none"
  ELSE IF mode = "error" THEN "500"
  ELSE IF SelectUser(SeedUsers, username).exists
    THEN SelectUser(SeedUsers, username).role
  ELSE "404"

RoleLookup(table, username, mode) ==
  IF mode = "none" THEN "none"
  ELSE IF mode = "error" THEN "500"
  ELSE IF SelectUser(table, username).exists THEN SelectUser(table, username).role
  ELSE "404"

\* the catch block of the lookup: error.response?.status || 500
RoleCatchStatus(role) == IF role = "404" THEN 404 ELSE 500

AdminRoleFailure(role) ==
  Decision(RoleCatchStatus(role),
           IF RoleCatchStatus(role) = 404 THEN "User not found"
           ELSE "Error retrieving user role", FALSE)

\* a middleware that compares the token before it looks at the role
AdminCheckTokenFirst(e, username, authorization, role, day) ==
  IF role \in {"404", "500", "none"} THEN AdminRoleFailure(role)
  ELSE IF TokenDiffers(ProvidedToken(authorization),
                       generateDynamicToken_management(e, NameText(username), day))
    THEN Decision(403, "Forbidden: Invalid token", TRUE)
  ELSE IF role # "admin" THEN Decision(403, "Forbidden: Admins only", TRUE)
  ELSE Decision(0, "", TRUE)

\* a middleware that lets every role pass to the token check
AdminCheckAnyRole(e, username, authorization, role, day) ==
  IF role \in {"404", "500", "none"} THEN AdminRoleFailure(role)
  ELSE IF TokenDiffers(ProvidedToken(authorization),
                       generateDynamicToken_management(e, NameText(username), day))
    THEN Decision(403, "Forbidden: Invalid token", TRUE)
  ELSE Decision(0, "", TRUE)

\* the middleware after the await, with the outcome `role` of the lookup
AdminCheck(e, username, authorization, role, day) ==
  IF role \in {"404", "500", "none"} THEN AdminRoleFailure(role)
  ELSE IF role # "admin" THEN Decision(403, "Forbidden: Admins only", FALSE)
  ELSE IF TokenDiffers(ProvidedToken(authorization),
                       generateDynamicToken_management(e, NameText(username), day))
    THEN Decision(403, "Forbidden: Invalid token", TRUE)
  ELSE Decision(0, "", TRUE)

(***************************************************************************)
(* The requests the admin gateway forwards (forwardRequest) and what the   *)
(* data-access layer does with them.  A users route names its row by id;   *)
(* `target` is the username of that row, or of the row to create.  A PUT   *)
(* carries the row's own username and password and any role.  The gateway  *)
(* has no route that deletes.  `mode` is as for the lookups, with "lost":   *)
(* the data-access layer handled the request and its response did not      *)
(* reach the gateway.                                                      *)
(***************************************************************************)
AdminRoutes == {"POST /users", "PUT /users/:id", "POST /items"}

ForwardModes == Modes \cup {"lost"}

UsersAfter(table, op, target, role, password, mode) ==
  IF mode \notin {"reply", "lost"} THEN table
  ELSE IF op = "PUT /users/:id" /\ table[target].exists
    THEN [table EXCEPT ![target] = Row(role, table[target].password)]
  ELSE IF op = "POST /users" /\ ~table[target].exists
    THEN [table EXCEPT ![target] = Row(role, password)]
  ELSE table

\* the status of the data-access layer's response (0: none reached the gateway)
UpstreamStatus(table, op, target, mode) ==
  IF mode \in {"none", "lost"} THEN 0
  ELSE IF mode = "error" THEN 500
  ELSE IF op = "PUT /users/:id"
    THEN IF table[target].exists THEN 200 ELSE 404
  ELSE IF op = "POST /users"
    THEN IF table[target].exists THEN 500 ELSE 201
  ELSE IF op = "POST /items" THEN 201
  ELSE 200

\* forwardRequest and handleAxiosError: the status the gateway answers with
ForwardStatus(upstream) == IF upstream = 0 THEN 500 ELSE upstream

(***************************************************************************)
(* Registration.  POST /users of the data-access layer, then POST /register*)
(* of the storefront, which sends the body on with role 'user'.  `mode` is *)
(* as for the admin gateway's forwarding: "reply" (the INSERT ran, or      *)
(* failed on the unique username), "error" (the query threw for another    *)
(* reason), "none" (no response reached the storefront), "lost" (the row   *)
(* was inserted and the response did not reach the storefront).            *)
(***************************************************************************)
\* the body of the data-access layer's 500: `Error creating user: ${error}`
CreateUserError(table, username, mode) ==
  IF mode = "error"
    THEN "Error creating user: Error: connect ECONNREFUSED"
  ELSE IF mode = "reply" /\ table[username].exists
    THEN "Error creating user: error: duplicate key value violates unique constraint"
  ELSE ""

\* the bodies of POST /register in the model (username, named, password):
\* complete ones for every username, and one without each field
RegisterBodies ==
  {<<u, TRUE, "asmith@456">> : u \in Usernames}
    \cup {<<"", TRUE, "asmith@456">>, <<"mallory", FALSE, "asmith@456">>,
          <<"mallory", TRUE, "">>}

\* the role field of the body of POST /register: "" is no such field
BodyRoles == {"", "admin", "user"}

\* a userData that takes the role of the body when the body has one
UserDataWithBodyRole(username, role, password) ==
  [username |-> username, role |-> IF role = "" THEN "user" ELSE role,
   password |-> password]

\* const userData = { username, role: 'user', firstname, surname, password }
UserData(username, role, password) ==
  [username |-> username, role |-> "user", password |-> password]

\* a response of POST /register: status 0 when none was sent
Registered(status, error, message, by) ==
  [status |-> status, error |-> error, message |-> message, by |-> by]

\* the catch block of POST /register: error.response.data goes into the
\* response; without a response of the upstream, reading .data of undefined
\* throws in the catch block and the handler's promise is rejected, which
\* nothing handles: no response is sent
RegisterCatch(upstream, text) ==
  IF upstream = 0 THEN Registered(0, "", "", "nobody")
  ELSE Registered(500, "Internal server error", text, "route")

\* POST /register; "" is a field that is missing or empty, `named` says
\* that firstname and surname are both there
RegisterHandler(table, username, named, password, mode) ==
  IF username = "" \/ ~named \/ password = ""
    THEN Registered(400, "Username, firstname, surname and password are required",
                    "", "route")
  ELSE IF UpstreamStatus(table, "POST /users", username, mode) = 201
    THEN Registered(201, "", "", "route")
  ELSE RegisterCatch(UpstreamStatus(table, "POST /users", username, mode),
                     CreateUserError(table, username, mode))

\* what the upstream answered to the storefront ("" when it was not called)
RegisterLookup(table, username, named, password, mode) ==
  IF username = "" \/ ~named \/ password = "" THEN ""
  ELSE IF UpstreamStatus(table, "POST /users", username, mode) = 201 THEN "201"
  ELSE IF UpstreamStatus(table, "POST /users", username, mode) = 0 THEN "none"
  ELSE "error"

Register(username, named, role, password, mode) ==
  /\ admin.pc = "idle"
  /\ users' = IF RegisterLookup(users, username, named, password, mode) = ""
                THEN users
                ELSE UsersAfter(users, "POST /users",
                                UserData(username, role, password).username,
                                UserData(username, role, password).role,
                                UserData(username, role, password).password, mode)
  /\ seen' = [NothingSeen EXCEPT
                !.svc = "storefront", !.op = "POST /register",
                !.by = RegisterHandler(users, username, named, password, mode).by,
                !.username = Header(username), !.password = password,
                !.role = role,
                !.lookup = RegisterLookup(users, username, named, password, mode),
                !.status = RegisterHandler(users, username, named, password, mode).status,
                !.error = RegisterHandler(users, username, named, password, mode).error,
                !.message = RegisterHandler(users, username, named, password, mode).message]
  /\ UNCHANGED <<env, admin, today>>
  /\ UNCHANGED cartVars
  /\ UNCHANGED sideVars

\* the X-User headers of the model: the usernames, the empty value and no
\* header
XUsers == {Header(u) : u \in Usernames} \cup {Header(""), NoUserHeader}

\* the token of the day with its last character changed
CorruptedToken(e, username, day) ==
  "sha256(" \o username \o ISODate(day) \o OrDefaultSecret(e) \o "]"

\* the tokens a client may hold for a name: the tokens issued for it on the
\* days up to today, the tokens issued today for the identities, a corrupted one
HeldTokens(name) ==
  {generateDynamicToken_adapter(env, name, d) : d \in 0..today}
    \cup {generateDynamicToken_adapter(env, u, today) : u \in Users}
    \cup {CorruptedToken(env, name, today)}

\* the Authorization values of a request for a name: Bearer and a token, and
\* today's token without a scheme, after two spaces, after another scheme,
\* and followed by more text
Authorizations(name) ==
  {Header(<<"Bearer", " ", tk>>) : tk \in HeldTokens(name)}
    \cup {Header(<<generateDynamicToken_adapter(env, name, today)>>),
          Header(<<"Bearer", " ", " ", generateDynamicToken_adapter(env, name, today)>>),
          Header(<<"Basic", " ", generateDynamicToken_adapter(env, name, today)>>),
          Header(<<"Bearer", " ", generateDynamicToken_adapter(env, name, today), " ", "x">>)}

\* a header without a value, or no header
FalsyAuthorizations == {NoAuthHeader, Header(<<>>)}

\* what `seen` holds for a decision d of a middleware
SeenDecision(svc, username, authorization, lookup, d) ==
  [NothingSeen EXCEPT
     !.svc = svc, !.by = "middleware", !.username = username,
     !.authorization = authorization, !.lookup = lookup,
     !.compared = d.compared, !.passed = (d.status = 0),
     !.status = d.status, !.error = d.error]

\* a request to a route of the locally verifying storefront (POST /cart,
\* POST /checkout, POST /payment): authMiddleware
BackendRequest(username, authorization) ==
  /\ admin.pc = "idle"
  /\ seen' = SeenDecision("backend", username, authorization, "",
                          BackendAuth(env, username, authorization, today))
  /\ UNCHANGED <<users, env, admin, today>>
  /\ UNCHANGED cartVars
  /\ UNCHANGED sideVars

\* the admin gateway refuses a request without Authorization value
AdminRefuse(username, authorization) ==
  /\ admin.pc = "idle"
  /\ FalsyAuthHeader(authorization)
  /\ seen' = SeenDecision("management", username, authorization, "",
                          Decision(401, "Missing Authorization header", FALSE))
  /\ UNCHANGED <<users, env, admin, today>>
  /\ UNCHANGED cartVars
  /\ UNCHANGED sideVars

\* the admin gateway takes a request with an Authorization value and sends
\* the role lookup (the middleware does not look at the route)
AdminReceive(username) ==
  /\ admin.pc = "idle"
  /\ admin' = [pc |-> "role", op |-> "", username |-> username]
  /\ seen' = NothingSeen
  /\ UNCHANGED <<users, env, today>>
  /\ UNCHANGED cartVars
  /\ UNCHANGED sideVars

\* the lookup ends and the middleware goes on; when it calls next() the
\* route `op` of the request sends it on to the data-access layer
AdminRole(op, authorization, mode) ==
  /\ admin.pc = "role"
  /\ seen' = [SeenDecision("management", admin.username, authorization,
                           RoleLookup(users, admin.username, mode),
                           AdminCheck(env, admin.username, authorization,
                                      RoleLookup(users, admin.username, mode), today))
                EXCEPT !.forwarded =
                  (AdminCheck(env, admin.username, authorization,
                              RoleLookup(users, admin.username, mode), today).status = 0)]
  /\ admin' = IF AdminCheck(env, admin.username, authorization,
                            RoleLookup(users, admin.username, mode), today).status = 0
                THEN [admin EXCEPT !.pc = "forward", !.op = op]
                ELSE AdminIdle
  /\ UNCHANGED <<users, env, today>>
  /\ UNCHANGED cartVars
  /\ UNCHANGED sideVars

\* the data-access layer handles the forwarded request and the gateway relays
\* the response
AdminForward(target, role, password, mode) ==
  /\ admin.pc = "forward"
  /\ users' = UsersAfter(users, admin.op, target, role, password, mode)
  /\ seen' = [NothingSeen EXCEPT
                !.svc = "management", !.by = "route", !.op = admin.op,
                !.username = admin.username,
                !.status = ForwardStatus(UpstreamStatus(users, admin.op, target, mode))]
  /\ admin' = AdminIdle
  /\ UNCHANGED <<env, today>>
  /\ UNCHANGED cartVars
  /\ UNCHANGED sideVars

\* midnight UTC
AdvanceDay ==
  /\ today < MaxDay
  /\ today' = today + 1
  /\ seen' = NothingSeen
  /\ UNCHANGED <<users, env, admin>>
  /\ UNCHANGED cartVars
  /\ UNCHANGED sideVars

AuthInit ==
  /\ carts = [obj |-> FALSE, own |-> EmptyObject]
  /\ checkoutCompleted = EmptyObject
  /\ inflight = [s \in 1..1 |-> Idle]
  /\ today = 1
  /\ lastCheckout = {}
  /\ last = Nothing
  /\ users = SeedUsers
  /\ env \in EnvValues
  /\ admin = AdminIdle
  /\ seen = NothingSeen
  /\ query = NoQuery
  /\ history = NoHistory
  /\ routed = NoRequest
  /\ batch = NoBatch
  /\ probe = NotStarted
  /\ soap = NoCall

AuthNext ==
  \/ \E username \in LoginNames, password \in LoginPasswords, mode \in Modes :
       Login(username, password, mode)
  \/ \E body \in RegisterBodies, role \in BodyRoles, mode \in ForwardModes :
       Register(body[1], body[2], role, body[3], mode)
  \/ \E username \in XUsers :
       \E authorization \in Authorizations(NameText(username)) \cup FalsyAuthorizations :
         BackendRequest(username, authorization)
  \/ \E username \in XUsers, authorization \in FalsyAuthorizations :
       AdminRefuse(username, authorization)
  \/ \E username \in XUsers : AdminReceive(username)
  \/ \E op \in AdminRoutes, mode \in Modes :
       \E authorization \in Authorizations(NameText(admin.username)) :
         AdminRole(op, authorization, mode)
  \/ \E target \in Usernames, role \in Roles, password \in Passwords,
        mode \in ForwardModes :
       AdminForward(target, role, password, mode)
  \/ AdvanceDay

AuthSpec == AuthInit /\ [][AuthNext]_vars

(***************************************************************************)
(* GET /items of the data-access layer: paging.  Express hands the query   *)
(* parameters over as strings (undefined when absent).  The integers of    *)
(* the model are given in decimal, for which parseInt without a radix is   *)
(* parseInt(v, 10).                                                        *)
(***************************************************************************)
MaxQuery == 3

\* the decimal text of an integer
RECURSIVE DecimalDigits(_)
DecimalDigits(n) ==
  IF n < 10 THEN <<DigitChars[n + 1]>>
  ELSE Append(DecimalDigits(n \div 10), DigitChars[(n % 10) + 1])

DecimalText(k) == IF k < 0 THEN <<"-">> \o DecimalDigits(0 - k) ELSE DecimalDigits(k)

\* the integers given as page or limit: the small ones of either sign, and
\* the two around the documented maximum of limit
QueryIntegers == ((0 - MaxQuery)..MaxQuery) \cup {1000, 1001}

\* the values of a query parameter: absent, empty, not a number, an integer
QueryValues ==
  {Undefined, Str(<<>>), Str(<<"a", "b", "c">>)}
    \cup {Str(DecimalText(k)) : k \in QueryIntegers}

\* page = parseInt(page) || 1
PageOrOne(page) == IF Falsy(ParseInt(page)) THEN Num(1) ELSE ParseInt(page)

\* limit = parseInt(limit); limit = isNaN(limit) ? 10 : Math.min(limit, 1000)
LimitOrTen(limit) ==
  IF ParseInt(limit).t = "NaN" THEN Num(10)
  ELSE IF ParseInt(limit).n < 1000 THEN ParseInt(limit)
  ELSE Num(1000)

\* the page of the response and the LIMIT and OFFSET of the query
Paginate(page, limit) ==
  [page |-> PageOrOne(page).n, limit |-> LimitOrTen(limit).n,
   offset |-> (PageOrOne(page).n - 1) * LimitOrTen(limit).n]

GetItems(page, limit) ==
  /\ query' = [pc |-> "sent", page |-> page, limit |-> limit,
               sent |-> Paginate(page, limit)]
  /\ UNCHANGED <<today, history>>
  /\ UNCHANGED serviceVars
  /\ UNCHANGED cartVars
  /\ UNCHANGED authVars

ItemsNext == \E page \in QueryValues, limit \in QueryValues : GetItems(page, limit)

ItemsSpec == Init /\ [][ItemsNext]_vars

(***************************************************************************)
(* The storefront observed with a history.  `history` records, per         *)
(* identity, the lines of the adds answered 200 since the identity's last  *)
(* successful checkout, in the order of the answers, and the numbers of    *)
(* successful checkouts, of successful payments, and of successful         *)
(* checkouts since the last successful payment.  A handler is suspended at *)
(* its token verification and, for POST /cart, at its catalog lookup;      *)
(* between two awaits it runs alone.  No axios call of the storefront      *)
(* carries a timeout, so a call that the upstream never answers stays      *)
(* pending ("hung").                                                       *)
(*                                                                         *)
(* FlowSpec has one client, which sends a request when the one before is   *)
(* answered: the order flow (add, checkout, payment).  RaceSpec has two    *)
(* connections, whose requests (add, list, checkout) are in flight         *)
(* together.                                                               *)
(***************************************************************************)
MaxOrders == 2

FlowUsers == {"alice", "constructor"}
RaceUsers == {"alice", "bob", "constructor"}

FlowRoutes == {"POST /cart", "POST /checkout", "POST /payment"}
RaceRoutes == {"POST /cart", "GET /cart/items", "POST /checkout"}

\* the itemIds of the adds; the quantity is 1
FlowItems == {Num(1), Num(2)}

\* the tokens presented for an identity: its own and another identity's
FlowTokens(u) == {generateDynamicToken(u, today), generateDynamicToken("mallory", today)}

\* the successful checkouts so far and the checkouts not yet answered
Orders ==
  history["alice"].checkouts + history["bob"].checkouts
    + history["constructor"].checkouts

PendingCheckouts ==
  Cardinality({s \in DOMAIN inflight : inflight[s].op = "POST /checkout"})

\* `history` after a response of status `status` to a request of u
Recorded(h, op, u, status, line) ==
  IF status # 200 THEN h
  ELSE IF op = "POST /cart"
    THEN [h EXCEPT ![u].appended = Append(@, line)]
  ELSE IF op = "POST /checkout"
    THEN [h EXCEPT ![u].appended = <<>>, ![u].checkouts = @ + 1,
                   ![u].unpaid = @ + 1]
  ELSE IF op = "POST /payment"
    THEN [h EXCEPT ![u].payments = @ + 1, ![u].unpaid = 0]
  ELSE h

\* a request with both headers arrives: authMiddleware up to its await
FlowReceive(s, op, u) ==
  /\ inflight[s].pc = "idle"
  /\ op = "POST /cart" => SumLines(carts.own, Identities) + Pending < MaxCart
  /\ op = "POST /checkout" => Orders + PendingCheckouts < MaxOrders
  /\ inflight' = [inflight EXCEPT ![s] =
                    [Idle EXCEPT !.pc = "verify", !.op = op, !.user = u]]
  /\ last' = Nothing
  /\ UNCHANGED <<carts, checkoutCompleted, today, lastCheckout, query, history>>
  /\ UNCHANGED serviceVars
  /\ UNCHANGED authVars

\* the upstream never answers the call the handler is waiting for
FlowHang(s) ==
  /\ inflight[s].pc \in {"verify", "catalog"}
  /\ inflight' = [inflight EXCEPT ![s].pc = "hung"]
  /\ last' = Nothing
  /\ UNCHANGED <<carts, checkoutCompleted, today, lastCheckout, query, history>>
  /\ UNCHANGED serviceVars
  /\ UNCHANGED authVars

\* the verifier says no, or the call to it fails
FlowReject(s, token, up) ==
  /\ inflight[s].pc = "verify"
  /\ VerifyReply(inflight[s].user, token, up) # "valid"
  /\ last' = Served(s, token, Undefined, Undefined,
                    VerifyReply(inflight[s].user, token, up), "authMiddleware",
                    AuthStatus(VerifyReply(inflight[s].user, token, up)),
                    AuthError(VerifyReply(inflight[s].user, token, up)), <<>>)
  /\ inflight' = [inflight EXCEPT ![s] = Idle]
  /\ UNCHANGED <<carts, checkoutCompleted, today, lastCheckout, query, history>>
  /\ UNCHANGED serviceVars
  /\ UNCHANGED authVars

\* a synchronous handler runs to its response
FlowFinish(s, token, out) ==
  /\ last' = Served(s, token, Undefined, Undefined, "valid", AnsweredBy(out),
                    out.status, out.error, out.body)
  /\ carts' = out.carts
  /\ checkoutCompleted' = out.flags
  /\ lastCheckout' = Successes(inflight[s].op, inflight[s].user, out.status)
  /\ history' = Recorded(history, inflight[s].op, inflight[s].user, out.status,
                         Line(Undefined, Undefined))
  /\ inflight' = [inflight EXCEPT ![s] = Idle]
  /\ UNCHANGED <<today, query>>
  /\ UNCHANGED serviceVars
  /\ UNCHANGED authVars

\* POST /cart up to the catalog lookup
FlowAddBegin(s, token, itemId) ==
  /\ Authenticated(s, "POST /cart", token)
  /\ CartValidation(Coerce(itemId), Coerce(Num(1))) = ""
  /\ last' = Served(s, token, itemId, Num(1), "valid", "route", 0, "", <<>>)
  /\ inflight' = [inflight EXCEPT ![s].pc = "catalog",
                                  ![s].itemId = Coerce(itemId),
                                  ![s].quantity = Coerce(Num(1))]
  /\ UNCHANGED <<carts, checkoutCompleted, today, lastCheckout, query, history>>
  /\ UNCHANGED serviceVars
  /\ UNCHANGED authVars

\* POST /cart from the answer of the catalog lookup on
FlowAddEnd(s, reply) ==
  /\ inflight[s].pc = "catalog"
  /\ LET out == CartAddHandler(carts, checkoutCompleted, inflight[s].user,
                               inflight[s].itemId, inflight[s].quantity, reply)
     IN  /\ last' = Served(s, "", inflight[s].itemId, inflight[s].quantity,
                           reply, "route", out.status, out.error, out.body)
         /\ carts' = out.carts
         /\ checkoutCompleted' = out.flags
         /\ history' = Recorded(history, "POST /cart", inflight[s].user, out.status,
                                Line(inflight[s].itemId, inflight[s].quantity))
  /\ inflight' = [inflight EXCEPT ![s] = Idle]
  /\ UNCHANGED <<today, lastCheckout, query>>
  /\ UNCHANGED serviceVars
  /\ UNCHANGED authVars

FlowList(s, token) ==
  /\ Authenticated(s, "GET /cart/items", token)
  /\ FlowFinish(s, token, CartItemsHandler(carts, checkoutCompleted, inflight[s].user))

FlowCheckout(s, token) ==
  /\ Authenticated(s, "POST /checkout", token)
  /\ FlowFinish(s, token, CheckoutHandler(carts, checkoutCompleted, inflight[s].user))

FlowPayment(s, token) ==
  /\ Authenticated(s, "POST /payment", token)
  /\ FlowFinish(s, token, PaymentHandler(carts, checkoutCompleted, inflight[s].user))

\* the steps of connection s that an answer of the upstream sets off
FlowContinue(s) ==
  \/ \E token \in FlowTokens(inflight[s].user), up \in {"reply", "fail"} :
       FlowReject(s, token, up)
  \/ \E token \in FlowTokens(inflight[s].user), itemId \in FlowItems :
       FlowAddBegin(s, token, itemId)
  \/ \E reply \in {"data", "404"} : FlowAddEnd(s, reply)
  \/ \E token \in FlowTokens(inflight[s].user) : FlowCheckout(s, token)
  \/ \E token \in FlowTokens(inflight[s].user) : FlowPayment(s, token)

FlowInit ==
  /\ carts = [obj |-> FALSE, own |-> EmptyObject]
  /\ checkoutCompleted = EmptyObject
  /\ inflight = [s \in 1..1 |-> Idle]
  /\ today = 1
  /\ lastCheckout = {}
  /\ last = Nothing
  /\ users = SeedUsers
  /\ env = Env(TOKEN_SECRET)
  /\ admin = AdminIdle
  /\ seen = NothingSeen
  /\ query = NoQuery
  /\ history = NoHistory
  /\ routed = NoRequest
  /\ batch = NoBatch
  /\ probe = NotStarted
  /\ soap = NoCall

FlowNext ==
  \/ \E s \in DOMAIN inflight, op \in FlowRoutes, u \in FlowUsers : FlowReceive(s, op, u)
  \/ \E s \in DOMAIN inflight : FlowHang(s)
  \/ \E s \in DOMAIN inflight : FlowContinue(s)

\* Node runs the continuation of an await once the awaited call is answered
\* or has failed; nothing makes the upstream answer
FlowSpec ==
  FlowInit /\ [][FlowNext]_vars /\ \A s \in 1..1 : WF_vars(FlowContinue(s))

RaceInit ==
  /\ carts = [obj |-> FALSE, own |-> EmptyObject]
  /\ checkoutCompleted = EmptyObject
  /\ inflight = [s \in 1..2 |-> Idle]
  /\ today = 1
  /\ lastCheckout = {}
  /\ last = Nothing
  /\ users = SeedUsers
  /\ env = Env(TOKEN_SECRET)
  /\ admin = AdminIdle
  /\ seen = NothingSeen
  /\ query = NoQuery
  /\ history = NoHistory
  /\ routed = NoRequest
  /\ batch = NoBatch
  /\ probe = NotStarted
  /\ soap = NoCall

RaceNext ==
  \/ \E s \in DOMAIN inflight, op \in RaceRoutes, u \in RaceUsers : FlowReceive(s, op, u)
  \/ \E s \in DOMAIN inflight : \E token \in FlowTokens(inflight[s].user) :
       FlowReject(s, token, "reply")
  \/ \E s \in DOMAIN inflight : \E token \in FlowTokens(inflight[s].user),
        itemId \in FlowItems : FlowAddBegin(s, token, itemId)
  \/ \E s \in DOMAIN inflight, reply \in {"data", "404"} : FlowAddEnd(s, reply)
  \/ \E s \in DOMAIN inflight : \E token \in FlowTokens(inflight[s].user) :
       FlowList(s, token)
  \/ \E s \in DOMAIN inflight : \E token \in FlowTokens(inflight[s].user) :
       FlowCheckout(s, token)

RaceSpec == RaceInit /\ [][RaceNext]_vars

(***************************************************************************)
(* Routing in the storefront.  Express keeps the middlewares and routes in *)
(* the order of their registration and hands a request down this stack: a *)
(* layer that matches runs, and the layers below it see the request only   *)
(* when it calls next().  A path is its sequence of segments; ":id" in a   *)
(* route matches any segment.  app.get also serves HEAD.                   *)
(***************************************************************************)
Layer(kind, method, path) == [kind |-> kind, method |-> method, path |-> path]

\* the stack of backend-api/index.js
Stack ==
  <<Layer("parser", "", <<>>),                    \* app.use(bodyParser.json())
    Layer("mount", "", <<"api-docs">>),
    Layer("route", "POST", <<"register">>),
    Layer("route", "POST", <<"login">>),
    Layer("route", "GET", <<"items">>),
    Layer("route", "GET", <<"items", ":id">>),
    Layer("route", "POST", <<"cart">>),
    Layer("route", "GET", <<"cart", "items">>),
    Layer("route", "DELETE", <<"cart", "items">>),
    Layer("route", "POST", <<"checkout">>),
    Layer("route", "POST", <<"payment">>),
    Layer("route", "GET", <<"health">>),
    Layer("405", "", <<>>),                       \* app.use((req, res, next) => ...)
    Layer("404", "", <<>>)>>                      \* app.use((req, res, next) => ...)

\* the path of a request matches the path of a route
PathMatches(pattern, path) ==
  /\ Len(pattern) = Len(path)
  /\ \A i \in 1..Len(pattern) : pattern[i] = ":id" \/ pattern[i] = path[i]

\* the path of a request starts with the path of a mounted middleware
PrefixMatches(prefix, path) ==
  /\ Len(prefix) <= Len(path)
  /\ \A i \in 1..Len(prefix) : prefix[i] = path[i]

MethodMatches(routeMethod, method) ==
  routeMethod = method \/ (routeMethod = "GET" /\ method = "HEAD")

\* the layer runs for the request
LayerMatches(layer, method, path) ==
  CASE layer.kind = "route" ->
         PathMatches(layer.path, path) /\ MethodMatches(layer.method, method)
    [] layer.kind = "mount" -> PrefixMatches(layer.path, path)
    [] OTHER -> TRUE

\* the layer answers (the parser calls next(), every other layer that runs
\* sends a response)
LayerStatus(layer) ==
  CASE layer.kind = "405" -> 405
    [] layer.kind = "404" -> 404
    [] OTHER -> 200

LayerError(layer) ==
  CASE layer.kind = "405" -> "Method Not Allowed"
    [] layer.kind = "404" -> "Endpoint Not Found"
    [] OTHER -> ""

\* the requests of the model
Methods == {"GET", "POST", "PUT", "DELETE", "HEAD"}
Paths ==
  {<<"register">>, <<"login">>, <<"items">>, <<"items", "7">>, <<"cart">>,
   <<"cart", "items">>, <<"checkout">>, <<"payment">>, <<"health">>,
   <<"nowhere">>, <<"cart", "7">>, <<"items", "7", "price">>}

RouteReceive(method, path) ==
  /\ routed.pc \in {"none", "answered"}
  /\ routed' = [pc |-> "stack", method |-> method, path |-> path, layer |-> 1,
                status |-> 0, error |-> ""]
  /\ UNCHANGED <<today, query, history, batch, probe, soap>>
  /\ UNCHANGED cartVars
  /\ UNCHANGED authVars

\* the request reaches the layer: it runs and answers, or the request goes
\* on to the next layer
RouteStep ==
  /\ routed.pc = "stack"
  /\ routed' =
       IF LayerMatches(Stack[routed.layer], routed.method, routed.path)
            /\ Stack[routed.layer].kind # "parser"
         THEN [routed EXCEPT !.pc = "answered",
                             !.status = LayerStatus(Stack[routed.layer]),
                             !.error = LayerError(Stack[routed.layer])]
         ELSE [routed EXCEPT !.layer = @ + 1]
  /\ UNCHANGED <<today, query, history, batch, probe, soap>>
  /\ UNCHANGED cartVars
  /\ UNCHANGED authVars

RouteNext ==
  \/ \E method \in Methods, path \in Paths : RouteReceive(method, path)
  \/ RouteStep

RouteSpec == Init /\ [][RouteNext]_vars

(***************************************************************************)
(* POST /items/batch of the data-access layer.  An element of the body is  *)
(* one of: the items "a" and "b" (name and price given), an object without *)
(* name, an object without price, an object whose price is null, and null. *)
(* The handler runs from await to await; each query succeeds or throws.    *)
(* A transaction's rows are in `inserted` until COMMIT puts them into the  *)
(* table; `held` counts the connections checked out of the pool.           *)
(***************************************************************************)
\* how an awaited query settles
Outcomes == {"ok", "fail"}

MaxBatch == 2
MaxRows == 3

Elements == {"a", "b", "no name", "no price", "null price", "null"}

RECURSIVE SeqsUpTo(_, _)
SeqsUpTo(S, n) ==
  IF n = 0 THEN {<<>>}
  ELSE SeqsUpTo(S, n - 1)
         \cup {Append(b, e) : b \in SeqsUpTo(S, n - 1), e \in S}

\* the bodies of the model: arrays, and an object
BatchBodies == SeqsUpTo(Elements, MaxBatch) \cup {<<"not an array">>}

\* !item.name || item.price === undefined ; reading .name of null throws
ElementCheck(item) ==
  CASE item = "null" -> "throws"
    [] item \in {"no name", "no price"} -> "invalid"
    [] OTHER -> "ok"

\* the validation loop: the check of the first element that is not in
\* order, "ok" when every element is
RECURSIVE ValidationFrom(_, _)
ValidationFrom(body, i) ==
  IF i > Len(body) THEN "ok"
  ELSE IF ElementCheck(body[i]) # "ok" THEN ElementCheck(body[i])
  ELSE ValidationFrom(body, i + 1)

\* price NUMERIC(10,2) NOT NULL: the INSERT of a null price fails
InsertFails(item, outcome) == outcome = "fail" \/ item = "null price"

Batch(pc, body, before, table, inserted, i, held, status, error, returned) ==
  [pc |-> pc, body |-> body, before |-> before, table |-> table,
   inserted |-> inserted, i |-> i, held |-> held, status |-> status,
   error |-> error, returned |-> returned]

\* the table of a service on which no batch ran
BatchTable == IF batch.pc = "none" THEN <<>> ELSE batch.table

\* the synchronous head of the handler
BatchHead(body, table) ==
  IF body = <<"not an array">>
    THEN Batch("done", body, table, table, <<>>, 0, 0, 400,
               "Expected an array of items.", <<>>)
  ELSE IF ValidationFrom(body, 1) = "invalid"
    THEN Batch("done", body, table, table, <<>>, 0, 0, 400,
               "Item at index must have a name and price.", <<>>)
  ELSE IF ValidationFrom(body, 1) = "throws"
    \* a TypeError outside the try block: the promise of the handler is
    \* rejected and no response is sent
    THEN Batch("thrown", body, table, table, <<>>, 0, 0, 0, "", <<>>)
  ELSE Batch("connect", body, table, table, <<>>, 0, 0, 0, "", <<>>)

BatchFrame ==
  /\ UNCHANGED <<today, query, history, routed, probe, soap>>
  /\ UNCHANGED cartVars
  /\ UNCHANGED authVars

BatchReceive(body) ==
  /\ batch.pc \in {"none", "done", "thrown"}
  /\ Len(BatchTable) + Len(body) <= MaxRows
  /\ batch' = BatchHead(body, BatchTable)
  /\ BatchFrame

\* const client = await pool.connect()
BatchConnect(outcome) ==
  /\ batch.pc = "connect"
  /\ batch' = IF outcome = "fail"
                THEN [batch EXCEPT !.pc = "done", !.status = 500,
                                   !.error = "Internal Server Error"]
                ELSE [batch EXCEPT !.pc = "begin", !.held = @ + 1]
  /\ BatchFrame

\* await client.query('BEGIN')
BatchBegin(outcome) ==
  /\ batch.pc = "begin"
  /\ batch' = IF outcome = "fail" THEN [batch EXCEPT !.pc = "rollback"]
              ELSE IF Len(batch.body) = 0 THEN [batch EXCEPT !.pc = "commit"]
              ELSE [batch EXCEPT !.pc = "insert", !.i = 1]
  /\ BatchFrame

\* await client.query('INSERT ...') ; insertedItems.push(result.rows[0])
BatchInsert(outcome) ==
  /\ batch.pc = "insert"
  /\ batch' = IF InsertFails(batch.body[batch.i], outcome)
                THEN [batch EXCEPT !.pc = "rollback"]
              ELSE [batch EXCEPT
                      !.inserted = Append(@, batch.body[batch.i]),
                      !.i = @ + 1,
                      !.pc = IF batch.i = Len(batch.body) THEN "commit" ELSE "insert"]
  /\ BatchFrame

\* await client.query('COMMIT') ; res.status(201) ; finally client.release()
BatchCommit(outcome) ==
  /\ batch.pc = "commit"
  /\ batch' = IF outcome = "fail" THEN [batch EXCEPT !.pc = "rollback"]
              ELSE [batch EXCEPT !.pc = "done", !.status = 201,
                                 !.table = @ \o batch.inserted,
                                 !.returned = batch.inserted,
                                 !.held = @ - 1]
  /\ BatchFrame

\* catch (innerError): await client.query('ROLLBACK') ; res.status(500) ;
\* finally client.release().  A ROLLBACK that throws leaves the inner catch
\* through the finally block and is answered by the outer catch.
BatchCatch(b, outcome) ==
  [b EXCEPT !.pc = "done", !.status = 500,
            !.error = IF outcome = "fail" THEN "Internal Server Error"
                      ELSE "Internal Server Error during batch insert",
            !.held = @ - 1]

BatchRollback(outcome) ==
  /\ batch.pc = "rollback"
  /\ batch' = BatchCatch(batch, outcome)
  /\ BatchFrame

BatchNext ==
  \/ \E body \in BatchBodies : BatchReceive(body)
  \/ \E outcome \in Outcomes : BatchConnect(outcome)
  \/ \E outcome \in Outcomes : BatchBegin(outcome)
  \/ \E outcome \in Outcomes : BatchInsert(outcome)
  \/ \E outcome \in Outcomes : BatchCommit(outcome)
  \/ \E outcome \in Outcomes : BatchRollback(outcome)

BatchSpec == Init /\ [][BatchNext]_vars

(***************************************************************************)
(* The start of the data-access layer: initializeDatabase awaits           *)
(* waitForPostgres(retries = 10, delay = 3000) and then creates and seeds  *)
(* the tables.  Every probe settles: pool.query('SELECT 1') resolves or    *)
(* throws; the timer of the delay fires.  `probes` counts the probes,      *)
(* `failed` the failed ones.                                               *)
(***************************************************************************)
DefaultRetries == 10
MaxRetries == 3

\* the values of `retries`: the default and small ones
RetryValues == (0..MaxRetries) \cup {DefaultRetries}

\* a loop that runs once more: i <= retries
LoopContinuesInclusive(i, retries) == i <= retries

\* for (let i = 0; i < retries; i++)
LoopContinues(i, retries) == i < retries

Probing(pc, retries, i, probes, failed, tables, seeded) ==
  [pc |-> pc, retries |-> retries, i |-> i, probes |-> probes,
   failed |-> failed, tables |-> tables, seeded |-> seeded]

ProbeFrame ==
  /\ UNCHANGED <<today, query, history, routed, batch, soap>>
  /\ UNCHANGED cartVars
  /\ UNCHANGED authVars

\* initializeDatabase calls waitForPostgres: the loop is entered, or the
\* function throws at once
WaitStart(retries) ==
  /\ probe.pc \in {"none", "thrown", "ready", "failed"}
  /\ probe' = Probing(IF LoopContinues(0, retries) THEN "probe" ELSE "thrown",
                      retries, 0, 0, 0, {}, FALSE)
  /\ ProbeFrame

\* await pool.query('SELECT 1'): return, or catch and start the timer
WaitProbe(outcome) ==
  /\ probe.pc = "probe"
  /\ probe' = IF outcome = "ok"
                THEN [probe EXCEPT !.pc = "connected", !.probes = @ + 1]
                ELSE [probe EXCEPT !.pc = "sleep", !.probes = @ + 1,
                                   !.failed = @ + 1]
  /\ ProbeFrame

\* the timer fires: i++ and the loop's test; after the loop the throw, which
\* initializeDatabase does not catch
WaitWake ==
  /\ probe.pc = "sleep"
  /\ probe' = [probe EXCEPT
                 !.i = @ + 1,
                 !.pc = IF LoopContinues(probe.i + 1, probe.retries)
                          THEN "probe" ELSE "thrown"]
  /\ ProbeFrame

\* CREATE TABLE IF NOT EXISTS items, users; a query that throws is caught
\* and logged
CreateTables(outcome) ==
  /\ probe.pc = "connected"
  /\ probe' = IF outcome = "ok"
                THEN [probe EXCEPT !.pc = "tables", !.tables = {"items", "users"}]
                ELSE [probe EXCEPT !.pc = "failed"]
  /\ ProbeFrame

\* the seeding of items and users
SeedTables(outcome) ==
  /\ probe.pc = "tables"
  /\ probe' = IF outcome = "ok"
                THEN [probe EXCEPT !.pc = "ready", !.seeded = TRUE]
                ELSE [probe EXCEPT !.pc = "failed"]
  /\ ProbeFrame

\* the continuations of initializeDatabase
ProbeStep ==
  \/ \E outcome \in Outcomes : WaitProbe(outcome)
  \/ WaitWake
  \/ \E outcome \in Outcomes : CreateTables(outcome)
  \/ \E outcome \in Outcomes : SeedTables(outcome)

ProbeNext ==
  \/ \E retries \in RetryValues : WaitStart(retries)
  \/ ProbeStep

ProbeSpec == Init /\ [][ProbeNext]_vars /\ WF_vars(ProbeStep)

(***************************************************************************)
(* The SOAP items gateway (items-gateway/services/itemsService.js).  An    *)
(* operation validates its arguments, calls the backend with axios and     *)
(* answers with a result or throws a SOAP fault; `fault` is the errorcode  *)
(* of the fault, 0 for a result.  The backend replies with an item         *)
(* ("data"), with an empty body ("empty"), with status 404 or 500, or not  *)
(* within the timeout ("none").                                            *)
(***************************************************************************)
SoapReplies == {"data", "empty", "404", "500", "none"}

\* the errors thrown inside the try block of an operation
NoError == [class |-> "", message |-> "", status |-> 0]
ValidationError(message) == [class |-> "ValidationError", message |-> message, status |-> 0]
ServiceError(message) == [class |-> "ServiceError", message |-> message, status |-> 0]
\* the error axios throws: error.response.status, 0 when there is no response
AxiosError(status) == [class |-> "AxiosError", message |-> "", status |-> status]

Fault(faultstring, errorcode) == [faultstring |-> faultstring, errorcode |-> errorcode]

\* !args.id || typeof args.id !== 'number'
InvalidId(id) == Falsy(id) \/ id.t # "number"

\* what the try block of GetItem throws after the reply of the backend
GetItemError(reply) ==
  CASE reply = "data" -> NoError
    [] reply = "empty" -> ServiceError("Item not found")
    [] reply = "404" -> AxiosError(404)
    [] reply = "500" -> AxiosError(500)
    [] OTHER -> AxiosError(0)

\* the catch block of GetItem
GetItemCatch(error) ==
  IF error.class = "ValidationError" THEN Fault(error.message, 400)
  ELSE IF error.status = 404 THEN Fault("Item not found", 404)
  ELSE Fault("Internal server error", 500)

\* the arguments of GetItem in the model
SoapIds == {Undefined, NaN, Num(0), Num(1), Num(0 - 1), Str(<<"1">>)}

Call(pc, op, args, reply, fault, faultstring) ==
  [pc |-> pc, op |-> op, args |-> args, reply |-> reply, fault |-> fault,
   faultstring |-> faultstring]

SoapFrame ==
  /\ UNCHANGED <<today, query, history, routed, batch, probe>>
  /\ UNCHANGED cartVars
  /\ UNCHANGED authVars

\* GetItem up to the await
GetItemBegin(id) ==
  /\ soap.pc \in {"none", "done"}
  /\ soap' = IF InvalidId(id)
               THEN Call("done", "GetItem", <<id>>, "",
                         GetItemCatch(ValidationError("Invalid item ID")).errorcode,
                         GetItemCatch(ValidationError("Invalid item ID")).faultstring)
               ELSE Call("called", "GetItem", <<id>>, "", 0, "")
  /\ SoapFrame

\* GetItem after the await
GetItemEnd(reply) ==
  /\ soap.pc = "called" /\ soap.op = "GetItem"
  /\ soap' = IF GetItemError(reply) = NoError
               THEN [soap EXCEPT !.pc = "done", !.reply = reply]
               ELSE [soap EXCEPT !.pc = "done", !.reply = reply,
                       !.fault = GetItemCatch(GetItemError(reply)).errorcode,
                       !.faultstring = GetItemCatch(GetItemError(reply)).faultstring]
  /\ SoapFrame

\* parseInt(args.page) || 1 ; parseInt(args.limit) || 10
OrDefault(v, d) == IF Falsy(ParseInt(v)) THEN d ELSE ParseInt(v).n

\* page < 1 || limit < 1 || limit > 100
InvalidPaging(page, limit) ==
  OrDefault(page, 1) < 1 \/ OrDefault(limit, 10) < 1 \/ OrDefault(limit, 10) > 100

\* the arguments of GetItems in the model
SoapPagings == {Undefined, Num(0 - 1), Num(0), Num(1), Num(2), Num(100), Num(101)}

\* GetItems up to the await
GetItemsBegin(page, limit) ==
  /\ soap.pc \in {"none", "done"}
  /\ soap' = IF InvalidPaging(page, limit)
               THEN Call("done", "GetItems", <<page, limit>>, "", 400,
                         "Invalid page or limit parameters")
               ELSE Call("called", "GetItems", <<page, limit>>, "", 0, "")
  /\ SoapFrame

\* GetItems after the await: a reply without the list throws a TypeError
GetItemsEnd(reply) ==
  /\ soap.pc = "called" /\ soap.op = "GetItems"
  /\ soap' = IF reply = "data"
               THEN [soap EXCEPT !.pc = "done", !.reply = reply]
               ELSE [soap EXCEPT !.pc = "done", !.reply = reply, !.fault = 500,
                                 !.faultstring = "Internal server error"]
  /\ SoapFrame

SoapNext ==
  \/ \E id \in SoapIds : GetItemBegin(id)
  \/ \E reply \in SoapReplies : GetItemEnd(reply)
  \/ \E page \in SoapPagings, limit \in SoapPagings : GetItemsBegin(page, limit)
  \/ \E reply \in SoapReplies : GetItemsEnd(reply)

SoapSpec == Init /\ [][SoapNext]_vars

(***************************************************************************)
(* The storefront of the earlier revision (part_004): authMiddleware       *)
(* verifies the token locally and the cart, checkout and payment handlers  *)
(* are synchronous, so a request is handled in one step.  This revision    *)
(* keeps no checkout flag.                                                 *)
(***************************************************************************)
EarlierRoutes == {"POST /cart", "POST /checkout", "POST /payment"}

\* the Authorization values of the model: today's token of the user, a
\* corrupted token, and no header
EarlierAuthorizations(u) ==
  {Header(<<"Bearer", " ", generateDynamicToken_adapter(env, u, today)>>),
   Header(<<"Bearer", " ", CorruptedToken(env, u, today)>>),
   NoAuthHeader}

\* the lines of the array that global.carts[u] holds, none when it holds none
StoredOrEmpty(c, u) == IF c.obj /\ c.own[u].t = "array" THEN c.own[u].a ELSE <<>>

EarlierCartHandler(c, f, u, itemId, quantity) ==
  IF Falsy(itemId) \/ Falsy(quantity)
    THEN Outcome(400, "Item ID and quantity are required", <<>>, c, f)
  ELSE IF Get(Put(IF c.obj THEN c.own ELSE EmptyObject, u,
                  IF Truthy(Get(IF c.obj THEN c.own ELSE EmptyObject, u))
                    THEN Get(IF c.obj THEN c.own ELSE EmptyObject, u)
                    ELSE PArray(<<>>)), u).t # "array"
    \* push is not a function
    THEN Thrown([obj |-> TRUE,
                 own |-> Put(IF c.obj THEN c.own ELSE EmptyObject, u,
                             Get(IF c.obj THEN c.own ELSE EmptyObject, u))], f)
  ELSE Outcome(200, "", Push(StoredOrEmpty(c, u), Line(itemId, quantity)),
               [obj |-> TRUE,
                own |-> [(IF c.obj THEN c.own ELSE EmptyObject) EXCEPT
                           ![u] = PArray(Push(StoredOrEmpty(c, u),
                                              Line(itemId, quantity)))]], f)

EarlierCheckoutHandler(c, f, u) ==
  IF ~c.obj \/ ~Truthy(Get(c.own, u)) \/ LengthOf(Get(c.own, u)) = 0
    THEN Outcome(400, "Cart is empty", <<>>, c, f)
  ELSE Outcome(200, "", <<>>, [c EXCEPT !.own[u] = PArray(<<>>)], f)

\* res.json({ message: 'Payment processed successfully (simulated).' })
EarlierPaymentHandler(c, f, u) == Outcome(200, "", <<>>, c, f)

EarlierHandler(op, c, f, u, itemId, quantity) ==
  CASE op = "POST /cart" -> EarlierCartHandler(c, f, u, itemId, quantity)
    [] op = "POST /checkout" -> EarlierCheckoutHandler(c, f, u)
    [] OTHER -> EarlierPaymentHandler(c, f, u)

\* a request: authMiddleware and, when it calls next(), the route's handler
EarlierRequest(op, u, authorization, itemId, quantity) ==
  /\ op = "POST /cart" => SumLines(carts.own, Users) < MaxCart
  /\ op = "POST /checkout" => Orders < MaxOrders
  /\ op = "POST /payment" => history[u].payments < MaxOrders
  /\ IF BackendAuth(env, Header(u), authorization, today).status # 0
       THEN /\ last' = [Nothing EXCEPT
                          !.op = op, !.user = u, !.by = "authMiddleware",
                          !.status = BackendAuth(env, Header(u), authorization, today).status,
                          !.error = BackendAuth(env, Header(u), authorization, today).error]
            /\ UNCHANGED <<carts, history>>
       ELSE /\ last' = [Nothing EXCEPT
                          !.op = op, !.user = u, !.headers = "both",
                          !.itemId = itemId, !.quantity = quantity,
                          !.by = AnsweredBy(EarlierHandler(op, carts, checkoutCompleted,
                                                           u, itemId, quantity)),
                          !.status = EarlierHandler(op, carts, checkoutCompleted,
                                                    u, itemId, quantity).status,
                          !.error = EarlierHandler(op, carts, checkoutCompleted,
                                                   u, itemId, quantity).error,
                          !.body = EarlierHandler(op, carts, checkoutCompleted,
                                                  u, itemId, quantity).body]
            /\ carts' = EarlierHandler(op, carts, checkoutCompleted,
                                       u, itemId, quantity).carts
            /\ history' = Recorded(history, op, u,
                                   EarlierHandler(op, carts, checkoutCompleted,
                                                  u, itemId, quantity).status,
                                   Line(itemId, quantity))
  /\ UNCHANGED <<checkoutCompleted, inflight, today, lastCheckout, query>>
  /\ UNCHANGED serviceVars
  /\ UNCHANGED authVars

EarlierNext ==
  \E op \in EarlierRoutes, u \in Users :
    \E authorization \in EarlierAuthorizations(u) :
      \E itemId \in {Undefined, Num(1), Num(2)}, quantity \in {Undefined, Num(1)} :
        /\ op # "POST /cart" => (itemId = Undefined /\ quantity = Undefined)
        /\ EarlierRequest(op, u, authorization, itemId, quantity)

EarlierSpec == Init /\ [][EarlierNext]_vars

(***************************************************************************)
(* The storefront with the usernames "__proto__" and "map" among its       *)
(* clients: one connection, adds by alice, every other route by each of    *)
(* the three.                                                              *)
(***************************************************************************)
ProtoUsers == {"alice", "__proto__", "map"}

ProtoNext ==
  \/ \E s \in DOMAIN inflight, op \in Routes, u \in ProtoUsers :
       /\ op = "POST /cart" => u = "alice"
       /\ Receive(s, op, u, "both")
  \/ \E s \in DOMAIN inflight : \E token \in PresentedTokens(inflight[s].user) :
       Reject(s, token, "reply")
  \/ \E s \in DOMAIN inflight : \E token \in PresentedTokens(inflight[s].user) :
       CartAddBegin(s, token, Num(1), Num(1))
  \/ \E s \in DOMAIN inflight, reply \in CatalogReplies : CartAddEnd(s, reply)
  \/ \E s \in DOMAIN inflight : \E token \in PresentedTokens(inflight[s].user) :
       CartItems(s, token)
  \/ \E s \in DOMAIN inflight : \E token \in PresentedTokens(inflight[s].user) :
       CartDelete(s, token, Num(1))
  \/ \E s \in DOMAIN inflight : \E token \in PresentedTokens(inflight[s].user) :
       Checkout(s, token)
  \/ \E s \in DOMAIN inflight : \E token \in PresentedTokens(inflight[s].user) :
       Payment(s, token)

ProtoSpec == Init /\ [][ProtoNext]_vars

(***************************************************************************)
(* Vocabulary of the claims.                                               *)
(***************************************************************************)
\* the lines of u's cart (none when global.carts[u] holds no array of its own)
StoredLines(c, u) == IF c.own[u].t = "array" THEN c.own[u].a ELSE <<>>

\* the last step ran the handler of route op to a response
Handled(l, op) ==
  l.op = op /\ l.by \in {"route", "error middleware"} /\ l.status # 0

\* v denotes a positive integer: a positive integer number, or a numeric
\* string whose value is a positive integer
DenotesPositiveInteger(v) ==
  /\ v.t \in {"number", "string"}
  /\ v.t = "string" => v.s # <<>>
  /\ ToNumber(v).t = "number" /\ ToNumber(v).d = 1 /\ ToNumber(v).n > 0

\* C1: POST /payment by u fails with 400 whenever u has had no successful
\* checkout since process start or since u's last successful payment; after a
\* successful checkout the next payment succeeds with 200 and clears u's
\* checkout flag.
C1_PaymentFollowsCheckout ==
  [][Handled(last', "POST /payment") =>
       IF last'.user \in lastCheckout
         THEN /\ last'.status = 200
              /\ ~Truthy(Get(checkoutCompleted', last'.user))
              /\ last'.user \notin lastCheckout'
         ELSE last'.status = 400]_vars

\* C2: checkout(u) with an empty or never-created cart returns 400 and changes
\* neither u's cart nor u's checkout flag; with a non-empty cart it returns
\* 200, sets u's cart to the empty sequence and u's flag to true, and a
\* list(u) issued next returns the empty sequence.
C2_Checkout ==
  [][Handled(last', "POST /checkout") =>
       IF StoredLines(carts, last'.user) = <<>>
         THEN /\ last'.status = 400
              /\ carts' = carts
              /\ checkoutCompleted' = checkoutCompleted
         ELSE /\ last'.status = 200
              /\ carts'.own[last'.user] = PArray(<<>>)
              /\ checkoutCompleted'[last'.user] = PBool(TRUE)
              /\ CartItemsHandler(carts', checkoutCompleted', last'.user).status = 200
              /\ CartItemsHandler(carts', checkoutCompleted', last'.user).body = <<>>]_vars

\* C3: list(u) for a verified identity u that has no cart lines returns 200
\* with the empty sequence in every reachable state, including the states in
\* which no add has yet succeeded since process start.
C3_ListOfEmptyCart ==
  [][(Handled(last', "GET /cart/items") /\ StoredLines(carts, last'.user) = <<>>)
       => (last'.status = 200 /\ last'.body = <<>>)]_vars

\* C4: remove(u, itemId) with a positive-integer itemId fails with 400 and
\* leaves every cart and every checkout flag unchanged whenever u's cart is
\* empty (or was never created) or contains no line with that itemId.
C4_RemoveWithoutMatch ==
  [][(/\ Handled(last', "DELETE /cart/items")
      /\ NumberIsInteger(last'.itemId) /\ ~LeqZero(last'.itemId)
      /\ \A i \in 1..Len(StoredLines(carts, last'.user)) :
           StoredLines(carts, last'.user)[i].itemId # last'.itemId)
       => (/\ last'.status = 400
           /\ carts' = carts
           /\ checkoutCompleted' = checkoutCompleted)]_vars

\* lines without the element at index i
Without(lines, i) == SubSeq(lines, 1, i - 1) \o SubSeq(lines, i + 1, Len(lines))

\* C5: a successful remove(u, itemId) deletes exactly one line of u's cart,
\* the lowest-index line whose itemId equals the requested one, returns that
\* line as deletedItem and leaves all other lines of u's cart in their
\* original relative order (later duplicates of the same itemId stay).  The
\* requested itemId is the handler's itemId, which for a value that denotes a
\* positive integer is that integer.
C5_RemoveFirstMatch ==
  [][(Handled(last', "DELETE /cart/items") /\ last'.status = 200) =>
       /\ \E i \in 1..Len(StoredLines(carts, last'.user)) :
            /\ StoredLines(carts, last'.user)[i].itemId = Coerce(last'.itemId)
            /\ \A j \in 1..(i - 1) :
                 StoredLines(carts, last'.user)[j].itemId # Coerce(last'.itemId)
            /\ last'.body = <<StoredLines(carts, last'.user)[i]>>
            /\ StoredLines(carts', last'.user)
                 = Without(StoredLines(carts, last'.user), i)
       /\ DenotesPositiveInteger(last'.itemId)
            => Coerce(last'.itemId) = ToNumber(last'.itemId)]_vars

\* a remove succeeded and a later line with the removed itemId is still there
C5_Witness ==
  /\ Handled(last, "DELETE /cart/items") /\ last.status = 200
  /\ \E i \in 1..Len(StoredLines(carts, last.user)) :
       StoredLines(carts, last.user)[i].itemId = last.body[1].itemId

\* C6: after a successful add(u, itemId, quantity) the cart returned by the
\* add response and by a following list(u) is the previous sequence of u's
\* lines with the new line (itemId, quantity) appended as last element; the
\* same itemId added twice gives two lines, never one with a summed quantity.
\* (First conjunct: the handler's itemId and quantity are the integers the
\* request denotes; second: the push and the two responses.)
C6_AddAppends ==
  [][/\ (/\ last'.op = "POST /cart" /\ last'.upstream = "valid" /\ last'.status = 0
         /\ DenotesPositiveInteger(last'.itemId)
         /\ DenotesPositiveInteger(last'.quantity))
        => \E s \in DOMAIN inflight :
             /\ inflight[s].pc = "verify" /\ inflight'[s].pc = "catalog"
             /\ inflight'[s].itemId = ToNumber(last'.itemId)
             /\ inflight'[s].quantity = ToNumber(last'.quantity)
     /\ (last'.op = "POST /cart" /\ last'.status = 200)
        => /\ last'.body = Append(StoredLines(carts, last'.user),
                                  Line(last'.itemId, last'.quantity))
           /\ StoredLines(carts', last'.user) = last'.body
           /\ CartItemsHandler(carts', checkoutCompleted', last'.user).status = 200
           /\ CartItemsHandler(carts', checkoutCompleted', last'.user).body
                = last'.body]_vars

\* an add of an itemId already in the cart succeeded: two lines, same itemId
C6_Witness ==
  /\ last.op = "POST /cart" /\ last.status = 200
  /\ Len(last.body) = 2
  /\ last.body[1].itemId = last.body[2].itemId

\* C7: add is accepted only when itemId and quantity each denote a positive
\* integer; for every other value the storefront answers 400, issues no
\* catalog query and leaves all carts unchanged.
C7_AddValidation ==
  [][(last'.op = "POST /cart" /\ last'.upstream = "valid") =>
       IF DenotesPositiveInteger(last'.itemId) /\ DenotesPositiveInteger(last'.quantity)
         THEN last'.status # 400
         ELSE /\ last'.status = 400
              /\ \A s \in DOMAIN inflight : inflight'[s].pc # "catalog"
              /\ carts' = carts]_vars

\* C8: with valid itemId and quantity, add appends a line only if the catalog
\* lookup succeeded; if the catalog reports the item missing the response is
\* 404, if the call fails in any other way it is 500, and in both failure
\* cases no cart is changed.
C8_AddCatalog ==
  [][(last'.op = "POST /cart" /\ last'.upstream \in CatalogReplies) =>
       /\ (\E u \in Users : StoredLines(carts', u) # StoredLines(carts, u))
            => last'.upstream = "data"
       /\ last'.upstream \in {"404", "empty"}
            => (last'.status = 404 /\ carts' = carts)
       /\ last'.upstream \in {"500", "none"}
            => (last'.status = 500 /\ carts' = carts)
       /\ last'.status = 200 => last'.upstream = "data"]_vars

\* the catalog reported an item missing while the identity had a line
C8_Witness ==
  /\ last.op = "POST /cart" /\ last.upstream = "404" /\ last.status = 404
  /\ StoredLines(carts, last.user) # <<>>

\* C9: in every reachable state every line stored in any identity's cart has
\* an integer itemId > 0 and an integer quantity > 0.
C9_LinesPositive ==
  \A u \in Users : \A i \in 1..Len(StoredLines(carts, u)) :
    /\ NumberIsInteger(StoredLines(carts, u)[i].itemId)
    /\ StoredLines(carts, u)[i].itemId.n > 0
    /\ NumberIsInteger(StoredLines(carts, u)[i].quantity)
    /\ StoredLines(carts, u)[i].quantity.n > 0

\* an add has just stored a second line in a cart
C9_Witness ==
  /\ last.op = "POST /cart" /\ last.status = 200
  /\ Len(StoredLines(carts, last.user)) = 2

\* C10: a request to an authenticated endpoint that carries both headers but
\* a token that is invalid, malformed or expired for the given identity is
\* answered with status 401.
C10_InvalidToken401 ==
  [][(last'.headers = "both" /\ last'.upstream = "invalid") => last'.status = 401]_vars

(***************************************************************************)
(* Vocabulary of the claims about authentication.                          *)
(***************************************************************************)
\* the last step was a decision of the middleware of gateway svc
Decided(s, svc) == s.svc = svc /\ s.by = "middleware"

\* the token derived for a name on a day under configuration e, written out
DerivedToken(e, name, day) ==
  "sha256(" \o name \o "2025-01-1" \o DigitChars[day + 1]
    \o (IF e.set /\ e.v # "" THEN e.v ELSE "default_secret") \o ")"

\* the request carried, as second text of its Authorization value, tk
Presented(s, tk) ==
  ProvidedToken(s.authorization).present /\ ProvidedToken(s.authorization).v = tk

\* C11: on both trust boundaries (storefront gateway and admin gateway), a
\* privileged request that lacks either the Authorization credential or the
\* X-User identity is answered 401, and no upstream lookup and no handler is
\* run for it.
C11_MissingHeader401 ==
  [][((Decided(seen', "backend") \/ Decided(seen', "management"))
        /\ (~seen'.authorization.present \/ ~seen'.username.present))
       => (/\ seen'.status = 401
           /\ seen'.lookup = ""
           /\ ~seen'.passed /\ ~seen'.forwarded)]_vars

\* the request of the last step failed authentication: a header was missing,
\* the call to the verifier failed, or its token is not the identity's token
FailsAuthentication(l) ==
  /\ l.op # ""
  /\ \/ l.headers # "both"
     \/ l.upstream = "fail"
     \/ l.upstream \in {"valid", "invalid"} /\ ~VerifyToken(l.user, l.token, today)

\* C12: a storefront request that fails authentication (missing header,
\* invalid token, or verifier failure) leaves every cart and every checkout
\* flag exactly as it was: the cart/checkout/payment handler is never entered
\* for it.
C12_FailedAuthTouchesNothing ==
  [][FailsAuthentication(last') =>
       (/\ carts' = carts
        /\ checkoutCompleted' = checkoutCompleted
        /\ last'.by = "authMiddleware"
        /\ last'.status \in {401, 403, 500}
        /\ \A s \in DOMAIN inflight : inflight'[s].pc = "idle")]_vars

\* a request with an invalid token was refused while its identity had a cart
\* line and another identity a checkout flag
C12_Witness ==
  /\ last.upstream = "invalid" /\ last.by = "authMiddleware"
  /\ StoredLines(carts, last.user) # <<>>
  /\ \E u \in Users : checkoutCompleted[u] = PBool(TRUE)

\* C13: on the locally verifying boundaries (admin gateway, and the
\* storefront of the earlier revision), the token check of a request passes
\* if and only if the token taken from the Authorization header is exactly
\* equal to SHA-256(identity + today's UTC date 'YYYY-MM-DD' + secret) in hex;
\* every other presented value, including one differing in a single character
\* or an absent token field, is rejected, and the check itself never raises
\* an error.
C13_TokenCheck ==
  [][(Decided(seen', "backend") \/ Decided(seen', "management")) =>
       (/\ seen'.passed => seen'.compared
        /\ seen'.compared =>
             (seen'.passed <=>
                Presented(seen', DerivedToken(env, NameText(seen'.username), today)))
        /\ seen'.compared => seen'.status \in {0, 403})]_vars

\* a token that differs from the derived one in its last character was
\* compared and rejected
C13_Witness ==
  /\ seen.compared /\ ~seen.passed /\ seen.status = 403
  /\ Presented(seen, CorruptedToken(env, NameText(seen.username), today))

\* C14: a token issued at login on UTC calendar day D for identity u is
\* accepted by every verification performed on day D and rejected by every
\* verification performed on any later day; nothing other than the day
\* boundary ever invalidates it (no revocation, no dependence on the users
\* table or on cart/flag state).
C14_TokenLifetime ==
  [][/\ (seen'.op = "POST /login" /\ seen'.status = 200)
          => seen'.token = DerivedToken(env, seen'.username.v, today)
     /\ \A d \in 0..today :
          (seen'.compared
             /\ Presented(seen', DerivedToken(env, NameText(seen'.username), d)))
            => (seen'.passed <=> d = today)]_vars

\* yesterday's token was compared today and rejected
C14_Witness ==
  /\ today > 1
  /\ seen.compared /\ ~seen.passed
  /\ Presented(seen, DerivedToken(env, NameText(seen.username), today - 1))

\* C15: the three token derivations (data-access layer at login, storefront
\* verifier, admin verifier) compute the same function: for the same
\* identity, the same UTC day and the same TOKEN_SECRET configuration
\* (including unset, falling back to 'default_secret'), the token minted by
\* POST /users/validate is identical to the value each gateway expects, so a
\* freshly issued token is accepted by both gateways on the day of issue.
C15_SameDerivation ==
  /\ \A e \in EnvValues, u \in LoginNames, d \in 0..MaxDay :
       /\ generateDynamicToken_backend(e, u, d)
            = generateDynamicToken_adapter(e, u, d)
       /\ generateDynamicToken_management(e, u, d)
            = generateDynamicToken_adapter(e, u, d)
  /\ (seen.op = "POST /login" /\ seen.status = 200) =>
       /\ BackendAuth(env, seen.username,
                      Header(<<"Bearer", " ", seen.token>>), today).status = 0
       /\ AdminCheck(env, seen.username,
                     Header(<<"Bearer", " ", seen.token>>), "admin", today).status = 0

\* a login succeeded while TOKEN_SECRET was unset
C15_Witness ==
  /\ seen.op = "POST /login" /\ seen.status = 200 /\ seen.token # ""
  /\ ~env.set

\* the users table holds a row for the name
Known(table, name) == SelectUser(table, Header(name)).exists

\* C16: for any non-empty username and password, the storefront's POST /login
\* response (status and body) for a username that does not exist is identical
\* to its response for an existing username with a wrong password; a token is
\* returned only when the password equals the stored credential exactly.
C16_LoginUniform ==
  /\ \A mode \in Modes, p \in LoginPasswords \ {""} :
       \A u1 \in LoginNames \ {""}, u2 \in LoginNames \ {""} :
         (/\ ~Known(users, u1)
          /\ Known(users, u2) /\ users[u2].password # p)
           => /\ LoginHandler(users, env, u1, p, mode, today)
                   = LoginHandler(users, env, u2, p, mode, today)
              /\ LoginHandler(users, env, u1, p, mode, today).token = ""
  /\ \A mode \in Modes, p \in LoginPasswords, u \in LoginNames :
       LoginHandler(users, env, u, p, mode, today).token # ""
         => (Known(users, u) /\ users[u].password = p)
  /\ (seen.op = "POST /login" /\ seen.token # "")
       => /\ seen.status = 200
          /\ Known(users, seen.username.v)
          /\ users[seen.username.v].password = seen.password

\* a login for a name without a row was refused, while another name has a row
\* with a password other than the one presented
C16_Witness ==
  /\ seen.op = "POST /login" /\ seen.status = 401 /\ seen.lookup = "401"
  /\ ~Known(users, seen.username.v)
  /\ \E u \in Usernames : Known(users, u) /\ users[u].password # seen.password

\* C17: on the admin gateway the role check always precedes the token check:
\* a request whose identity has a non-admin role is answered 'Forbidden:
\* Admins only' (403) whether or not its token is valid, and the token is
\* compared only for requests whose role lookup returned admin.
C17_RoleBeforeToken ==
  [][Decided(seen', "management") =>
       (/\ seen'.lookup \in Roles \ {"admin"}
             => (/\ seen'.status = 403
                 /\ seen'.error = "Forbidden: Admins only"
                 /\ ~seen'.compared /\ ~seen'.passed)
        /\ seen'.compared => seen'.lookup = "admin")]_vars

\* a request of a non-admin identity that carried its valid token was
\* answered 'Forbidden: Admins only'
C17_Witness ==
  /\ Decided(seen, "management") /\ seen.lookup = "user"
  /\ seen.error = "Forbidden: Admins only"
  /\ Presented(seen, DerivedToken(env, NameText(seen.username), today))

\* C18: no request on the admin gateway is forwarded to the data-access
\* layer's user or item endpoints unless, for that same request, the role
\* lookup for its identity returned 'admin' and its token equals the token
\* derived for that identity today; every other request is stopped in the
\* middleware with an error response.  (The table of users changes through
\* this gateway in a forwarded request only; the storefront's POST /register
\* reaches the data-access layer without this gateway.)
C18_ForwardOnlyAdmin ==
  [][/\ (seen'.forwarded \/ (admin'.pc = "forward" /\ admin.pc # "forward")) =>
          (/\ Decided(seen', "management")
           /\ admin.pc = "role" /\ seen'.username = admin.username
           /\ admin'.username = admin.username
           /\ seen'.lookup = "admin"
           /\ SelectUser(users, admin.username).role = "admin"
           /\ Presented(seen', DerivedToken(env, NameText(admin.username), today)))
     /\ (Decided(seen', "management") /\ ~seen'.forwarded) =>
          (/\ seen'.status \in {401, 403, 404, 500}
           /\ seen'.error # ""
           /\ admin' = AdminIdle)
     /\ users' # users =>
          (\/ admin.pc = "forward"
           \/ seen'.svc = "storefront" /\ seen'.op = "POST /register")]_vars

\* a request passed the middleware and is on its way to the data-access layer
C18_Witness ==
  /\ seen.forwarded /\ admin.pc = "forward"
  /\ admin.op = "PUT /users/:id"

\* C19: when the role lookup for a request's identity answers NotFound, the
\* admin gateway reports an authentication failure (401/403-class), and when
\* the lookup fails by transport (no upstream response) it reports a
\* different, 500-class failure; the two cases are never answered with the
\* same status and never with a not-found status.
C19_NotFoundIsAuthFailure ==
  [][Decided(seen', "management") =>
       (/\ seen'.lookup = "404" => seen'.status \in {401, 403}
        /\ seen'.lookup = "none" => seen'.status = 500
        /\ seen'.lookup \in {"404", "none"} => seen'.status # 404)]_vars

\* C20: the admin gateway never caches a role: every admin-gated request
\* performs its own role lookup before being served, so after an identity's
\* role in the store changes from admin to non-admin, every later request by
\* that identity is refused with 403 even with a token that is still valid
\* for the day.
C20_RoleNotCached ==
  [][/\ (admin'.pc = "forward" /\ admin.pc # "forward") =>
          (/\ admin.pc = "role"
           /\ seen'.lookup = "admin"
           /\ SelectUser(users, admin.username).role = "admin")
     /\ (/\ Decided(seen', "management")
         /\ seen'.lookup \notin {"", "500", "none"}
         /\ SelectUser(users, seen'.username).exists
         /\ SelectUser(users, seen'.username).role # "admin")
          => (seen'.status = 403 /\ ~seen'.forwarded /\ admin' = AdminIdle)]_vars

\* the identity seeded as admin, now with another role, presented its valid
\* token and was refused
C20_Witness ==
  /\ Decided(seen, "management") /\ seen.status = 403
  /\ seen.username = Header("alice")
  /\ SeedUsers["alice"].role = "admin" /\ users["alice"].role = "user"
  /\ Presented(seen, DerivedToken(env, "alice", today))

(***************************************************************************)
(* Failure paths of the collaborator calls.                                *)
(***************************************************************************)
\* the storefront called a collaborator and the call failed: an error
\* response of the upstream, or none
CollaboratorFailed(s) ==
  s.svc = "storefront" /\ s.lookup \in {"error", "none"}

\* the texts the storefront's own code holds for a failed collaborator call
GenericFailureTexts ==
  {"Internal server error", "Internal server error during login",
   "Error validating credentials"}

\* C21: when a collaborator call fails (credential validation, user
\* creation), the storefront's response to the caller is a generic failure:
\* its error is one of the storefront's own texts and it carries no text that
\* the upstream provided and no transport-level message.
C21_GenericFailure ==
  (CollaboratorFailed(seen) /\ seen.status # 0)
    => (seen.message = "" /\ seen.error \in GenericFailureTexts)

\* C22: every request handled by the storefront gateway receives an explicit
\* HTTP response on every path, also when a collaborator call is rejected
\* with an upstream HTTP error and when it fails without any upstream
\* response (register, login).
C22_AlwaysAnswered ==
  seen.svc = "storefront" => (seen.status # 0 /\ seen.by # "nobody")

(***************************************************************************)
(* The checkout flag.                                                      *)
(***************************************************************************)
\* the last step answered a request of route op by u with 200
Succeeded(l, op, u) == Handled(l, op) /\ l.user = u /\ l.status = 200

C28_FlagStaysSet ==
  [][\A u \in Users :
       /\ Succeeded(last', "POST /checkout", u) => checkoutCompleted'[u] = PBool(TRUE)
       /\ checkoutCompleted[u] = PBool(TRUE) =>
            \/ checkoutCompleted'[u] = PBool(TRUE)
            \/ /\ Succeeded(last', "POST /payment", u)
               /\ checkoutCompleted'[u] = PBool(FALSE)]_vars

\* a checkout has failed for an identity whose flag an earlier checkout set,
\* and the flag is still set
C28_Witness ==
  /\ Handled(last, "POST /checkout") /\ last.status = 400
  /\ checkoutCompleted[last.user] = PBool(TRUE)

(***************************************************************************)
(* Paging of GET /items.                                                   *)
(***************************************************************************)
\* v is the decimal text of an integer
IsIntegerText(v) ==
  v.t = "string" /\ \E k \in QueryIntegers : v.s = DecimalText(k)

\* C30: for every integer page and limit given to GET /items of the
\* data-access layer, the query sent to the store uses page 1 when page is
\* absent or non-numeric and limit 10 when limit is absent or non-numeric,
\* and always satisfies 1 <= LIMIT <= 1000 and OFFSET = (page - 1) * LIMIT >= 0.
C30_Paging ==
  query.pc = "sent" =>
    (/\ ~IsIntegerText(query.page) => query.sent.page = 1
     /\ ~IsIntegerText(query.limit) => query.sent.limit = 10
     /\ 1 <= query.sent.limit /\ query.sent.limit <= 1000
     /\ query.sent.offset = (query.sent.page - 1) * query.sent.limit
     /\ query.sent.offset >= 0)

(***************************************************************************)
(* Requests in flight: waiting for the upstream, and interleavings.        *)
(***************************************************************************)
\* C23: every external-store call made by the storefront (token
\* verification, catalog existence check) is bounded by a timeout, so a
\* request whose upstream never replies still eventually receives a response
\* instead of waiting forever.
C23_UpstreamCallsTimeOut ==
  (inflight[1].pc \in {"verify", "catalog"}) ~> (inflight[1].pc = "idle")

\* C24: under every interleaving of in-flight storefront requests from
\* different identities, a cart changes only in a step that answers its own
\* identity's add or checkout with 200, every line in identity u's cart is a
\* line of an add answered for u, and list(u) returns the lines added for u
\* and no other.
C24_NoForeignLines ==
  [][/\ \A u \in RaceUsers :
          /\ StoredLines(carts', u) # StoredLines(carts, u) =>
               (/\ last'.user = u /\ last'.status = 200
                /\ last'.op \in {"POST /cart", "POST /checkout"})
          /\ \A i \in 1..Len(StoredLines(carts', u)) :
               \E j \in 1..Len(history'[u].appended) :
                 StoredLines(carts', u)[i] = history'[u].appended[j]
     /\ (Handled(last', "GET /cart/items") /\ last'.status = 200) =>
          last'.body = history[last'.user].appended]_vars

\* alice's list is answered with alice's line alone while bob's cart holds
\* another line and a request of bob is in flight
C24_Witness ==
  /\ Succeeded(last, "GET /cart/items", "alice")
  /\ last.body = <<Line(Num(1), Num(1))>>
  /\ StoredLines(carts, "bob") = <<Line(Num(2), Num(1))>>
  /\ \E s \in DOMAIN inflight : inflight[s].pc = "verify" /\ inflight[s].user = "bob"

\* C25: concurrent requests for the same identity never lose or duplicate a
\* line: u's cart is the sequence of the lines of the adds answered 200 for u
\* since u's last successful checkout, each once, in the order in which their
\* catalog lookups completed.
C25_NoLostLine ==
  \A u \in RaceUsers : StoredLines(carts, u) = history[u].appended

\* two adds of one identity were in flight together; the one that arrived
\* second was answered first and the other was answered after it
C25_Witness ==
  \E u \in RaceUsers :
    /\ Succeeded(last, "POST /cart", u)
    /\ StoredLines(carts, u) = <<Line(Num(2), Num(1)), Line(Num(1), Num(1))>>
    /\ last.itemId = Num(1)
    /\ \E s \in DOMAIN inflight : inflight[s].pc = "verify" /\ inflight[s].user = u

C29_CheckoutNeedsAnAdd ==
  [][\A u \in RaceUsers :
       (/\ Handled(last', "POST /checkout") /\ last'.user = u
        /\ history[u].appended = <<>>)
         => (last'.status = 400 /\ last'.error = "Cart is empty")]_vars

\* the part of C29 about the second of two checkouts: after a successful
\* checkout by u, a checkout by u with no successful add in between is
\* answered 400 'Cart is empty'
C29_RetryFails ==
  [][\A u \in RaceUsers :
       (/\ Handled(last', "POST /checkout") /\ last'.user = u
        /\ history[u].appended = <<>> /\ history[u].checkouts >= 1)
         => (last'.status = 400 /\ last'.error = "Cart is empty")]_vars

\* two checkouts of one identity were in flight together; one was answered
\* 200 and the other 400
C29_RetryWitness ==
  \E u \in RaceUsers :
    /\ Handled(last, "POST /checkout") /\ last.user = u /\ last.status = 400
    /\ history[u].checkouts = 1 /\ history[u].appended = <<>>
    /\ PendingCheckouts = 0 /\ Orders = 1

\* C31: for every username, also one that a plain object inherits as a
\* property name, per-identity state that was never written reads as absent:
\* a payment by u answered while global.checkoutCompleted holds no property
\* of its own for u fails with 400, and a list by u answered while
\* global.carts, once it exists, holds no property of its own for u returns
\* the empty sequence.
C31_NeverWrittenIsAbsent ==
  [][/\ (Handled(last', "POST /payment")
           /\ checkoutCompleted[last'.user] = Absent)
          => last'.status = 400
     /\ (Handled(last', "GET /cart/items") /\ carts.obj
           /\ carts.own[last'.user] = Absent)
          => (last'.status = 200 /\ last'.body = <<>>)]_vars

\* C32: a token that is valid today for identity a is rejected when it is
\* presented together with any identity different from a, on the locally
\* verifying storefront and on the admin gateway (same day, same secret):
\* identity + date + secret is a different text for a different identity.
C32_TokenBoundToIdentity ==
  \A a \in Usernames :
    (/\ Decided(seen, "backend") \/ Decided(seen, "management")
     /\ Presented(seen, DerivedToken(env, a, today))
     /\ NameText(seen.username) # a)
      => (~seen.passed /\ seen.status \in {401, 403, 404, 500})

\* today's token of constructor was presented with X-User alice, compared
\* with the token derived for alice and rejected
C32_Witness ==
  /\ Decided(seen, "backend")
  /\ seen.username = Header("alice")
  /\ Presented(seen, DerivedToken(env, "constructor", today))
  /\ seen.compared /\ ~seen.passed /\ seen.status = 403

\* C33: every user-creation request that POST /register of the storefront
\* sends to the data-access layer carries role 'user', whatever the
\* registration body holds, a role field included: a registration changes
\* the table of users only by adding the row of its username with role
\* 'user', so that no admin account is created through the storefront.
C33_RegisterCreatesUserRole ==
  [][(seen'.svc = "storefront" /\ seen'.op = "POST /register") =>
       \A u \in Usernames :
         users'[u] # users[u] =>
           (/\ u = seen'.username.v
            /\ ~users[u].exists
            /\ users'[u] = Row("user", seen'.password))]_vars

\* a registration whose body held role 'admin' was answered 201 and its row
\* has role 'user'
C33_Witness ==
  /\ seen.svc = "storefront" /\ seen.op = "POST /register"
  /\ seen.role = "admin" /\ seen.status = 201
  /\ users[seen.username.v] = Row("user", seen.password)

\* C34: each storefront operation changes only the state it owns: a payment
\* changes no cart; add, list and remove change no checkout flag; and no
\* operation by identity u changes what the cart or the checkout flag of
\* another identity reads as.
C34_OwnStateOnly ==
  [][/\ Handled(last', "POST /payment") => carts' = carts
     /\ (\/ Handled(last', "POST /cart") \/ Handled(last', "GET /cart/items")
         \/ Handled(last', "DELETE /cart/items"))
          => checkoutCompleted' = checkoutCompleted
     /\ \A v \in Identities :
          v # last'.user =>
            (/\ Get(carts'.own, v) = Get(carts.own, v)
             /\ Get(checkoutCompleted', v) = Get(checkoutCompleted, v))]_vars

\* the path is the path of a route of the storefront
DefinedPath(path) ==
  \E i \in 1..Len(Stack) :
    Stack[i].kind = "route" /\ PathMatches(Stack[i].path, path)

\* C35: on the storefront, a request to a path that matches no defined route
\* is answered 404 'Endpoint Not Found', and 405 'Method Not Allowed' is
\* answered only for an unsupported method on a defined path.
C35_Fallbacks ==
  routed.pc = "answered" =>
    (/\ ~DefinedPath(routed.path) =>
          (routed.status = 404 /\ routed.error = "Endpoint Not Found")
     /\ routed.status = 405 => DefinedPath(routed.path))

\* the part of C35 that holds: an unsupported method on a defined path is
\* answered 405 'Method Not Allowed'
C35_MethodNotAllowed ==
  (/\ routed.pc = "answered" /\ DefinedPath(routed.path)
   /\ \A i \in 1..Len(Stack) :
        Stack[i].kind = "route" =>
          ~LayerMatches(Stack[i], routed.method, routed.path))
    => (routed.status = 405 /\ routed.error = "Method Not Allowed")

\* the second fallback of C35 is never reached: no request is answered by
\* the layer that answers 404
C35_NotFoundNeverRuns ==
  routed.pc = "answered" => Stack[routed.layer].kind # "404"

\* the element lacks name or price
Lacks(item) == item \in {"no name", "no price", "null"}

\* C36: POST /items/batch is all-or-nothing: when the handler has run,
\* either every item of the array is stored and returned in input order
\* (201), or no item of the array is stored: 400 when any element lacks name
\* or price, before the first insert, and 500 after a rollback when a query
\* failed; the pooled connection is released on every path.
C36_BatchAllOrNothing ==
  batch.pc \in {"done", "thrown"} =>
    (/\ batch.held = 0
     /\ (\E i \in 1..Len(batch.body) : Lacks(batch.body[i]))
          => (batch.status = 400 /\ batch.i = 0)
     /\ batch.status = 201 =>
          (batch.table = batch.before \o batch.body /\ batch.returned = batch.body)
     /\ batch.status # 201 => batch.table = batch.before)

\* the part of C36 that holds: a batch that was answered is stored as a
\* whole with 201 or not at all with 400 or 500, 400 is answered before the
\* first insert, and no connection stays checked out
C36_AnsweredAllOrNothing ==
  batch.pc = "done" =>
    (/\ batch.held = 0
     /\ batch.status \in {201, 400, 500}
     /\ batch.status = 400 => batch.i = 0
     /\ batch.status = 201 =>
          (batch.table = batch.before \o batch.body /\ batch.returned = batch.body)
     /\ batch.status # 201 => batch.table = batch.before)

\* the second insert of a batch failed and the batch was rolled back
C36_RolledBack ==
  /\ batch.pc = "done" /\ batch.status = 500
  /\ Len(batch.inserted) = 1 /\ Len(batch.body) = 2
  /\ batch.table = batch.before

\* waitForPostgres is in its loop
Waiting == probe.pc \in {"probe", "sleep"}

C38_GetItemFaults ==
  (soap.pc = "done" /\ soap.op = "GetItem") =>
    (/\ InvalidId(soap.args[1]) => soap.fault = 400
     /\ soap.reply \in {"404", "empty"}
          => (soap.fault = 404 /\ soap.faultstring = "Item not found")
     /\ soap.fault = 500 => soap.reply \in {"500", "none"})

\* the part of C38 that holds: fault 400 for an invalid id, fault 404 'Item
\* not found' when the backend answers 404, a result for an item
C38_GetItemStatusFaults ==
  (soap.pc = "done" /\ soap.op = "GetItem") =>
    (/\ InvalidId(soap.args[1]) <=> soap.fault = 400
     /\ soap.reply = "404"
          => (soap.fault = 404 /\ soap.faultstring = "Item not found")
     /\ soap.reply = "data" <=> soap.fault = 0
     /\ soap.fault = 500 <=> soap.reply \in {"500", "none", "empty"})

\* C39: in the storefront of the earlier revision a payment cannot be
\* completed without a checkout first: POST /payment by an identity that has
\* had no successful checkout is not answered with success.
C39_EarlierPaymentNeedsCheckout ==
  [][(/\ last'.op = "POST /payment" /\ last'.status # 0
      /\ history[last'.user].checkouts = 0)
       => last'.status # 200]_vars

====
